---- MODULE Spec2Model ----
(***************************************************************************)
(* Model of the MOV report extraction pipeline:                            *)
(*   - ChunkedExtractor.extract_report_chunked and its sub-extractors      *)
(*     (src/src/extraction/chunked_extractor.py),                          *)
(*   - the schema validation of src/src/models.py,                         *)
(*   - the callers upload_report (src/src/api/main.py) and the batch CLI   *)
(*     (src/src/cli/batch_extract.py),                                     *)
(*   - process_report (src/scripts/process_single_report.py) with          *)
(*     LLMExtractor.extract_report and ReportValidator,                    *)
(*   - the two stores (src/src/database) and a client of their interface,  *)
(*   - get_db and get_analytics of the API, called from several threads.   *)
(*                                                                         *)
(* Python values: a dict is a function on its keys (an absent key is an    *)
(* absent domain element), a list is a sequence, None is the string None.  *)
(* Site numbers and file names are sequences of one-character strings,     *)
(* because the code inspects their characters; the falsy site numbers      *)
(* (None and the empty string, which the code never tells apart) are the   *)
(* empty sequence.                                                         *)
(***************************************************************************)
EXTENDS Integers, Sequences, FiniteSets, TLC

None == "None"

\* ------------------------------------------------------------------------
\* Program constants
\* ------------------------------------------------------------------------

\* 85 questions expected (chunked_extractor.py line 83)
EXPECTED_QUESTIONS == 85

\* "len(questions) < 70" (chunked_extractor.py line 89)
REVIEW_MIN_QUESTIONS == 70

\* ThreadPoolExecutor(max_workers=3) of the question batches
QUESTION_WORKERS == 3

\* ThreadPoolExecutor(max_workers=2) of action items and assessment
AUX_WORKERS == 2

\* Field(..., ge=1, le=85) of QuestionResponse.question_number
QUESTION_NUMBER_MIN == 1

QUESTION_NUMBER_MAX == 85

\* len(v) != 6 of SiteInfo.validate_site_number
SITE_NUMBER_LEN == 6

\* max_length=10 of key_concerns / key_strengths
KEY_LIST_MAX == 10

batches == << <<1, 15>>, <<16, 30>>, <<31, 45>>, <<46, 60>>, <<61, 75>>, <<76, 85>> >>

Batch == 1..Len(batches)

expected_fields == <<"visit_type", "visit_start_date", "visit_end_date", "overall_site_quality">>

VisitType == {"SIV MOV", "IMV MOV", "COV MOV"}

AnswerType == {"Yes", "No", "N/A", "NR"}

SentimentType == {"Positive", "Negative", "Neutral", "Unknown"}

OverallSiteQuality == {"Excellent", "Good", "Adequate", "Needs Improvement", "Poor"}

\* ------------------------------------------------------------------------
\* Python helpers
\* ------------------------------------------------------------------------

\* dict.get(key): None for an absent key
Get(d, key) == IF key \in DOMAIN d THEN d[key] ELSE None

\* truth value of an Optional[str]: None and "" are falsy
Truthy(v) == v /= None /\ v /= ""

Max(a, b) == IF a >= b THEN a ELSE b

\* "; ".join / list of strings is kept as the sequence of its parts
Join(parts) == parts

AsciiDigit == {"0", "1", "2", "3", "4", "5", "6", "7", "8", "9"}

\* str.isdigit is true of every Unicode digit character, e.g. ARABIC-INDIC
\* DIGIT THREE and SUPERSCRIPT TWO, written here by their code points
UnicodeDigit == {"U+0663", "U+00B2"}

IsDigit(s) == Len(s) > 0 /\ \A i \in 1..Len(s) : s[i] \in AsciiDigit \cup UnicodeDigit

\* ------------------------------------------------------------------------
\* Schema validation (src/src/models.py)
\* ------------------------------------------------------------------------

\* SiteInfo.validate_site_number
validate_site_number(v) == IsDigit(v) /\ Len(v) = SITE_NUMBER_LEN

SiteInfoRequired == {"site_number", "country", "institution", "pi_first_name", "pi_last_name", "anthos_staff"}

\* SiteInfo(**site_info_data) succeeds
SiteInfoValid(d) ==
    /\ SiteInfoRequired \subseteq DOMAIN d
    /\ \A f \in SiteInfoRequired \ {"site_number"} : d[f] /= None
    /\ validate_site_number(d["site_number"])

RecruitmentFields == {"screened", "screen_failures", "randomized_enrolled", "early_discontinued", "completed_treatment", "completed_study"}

\* RecruitmentStats(**d) succeeds: six integers, each >= 0; the 'after'
\* validator validate_recruitment_math returns v unchanged
RecruitmentStatsValid(d) ==
    /\ RecruitmentFields \subseteq DOMAIN d
    /\ \A f \in RecruitmentFields : d[f] >= 0

\* the construction of one QuestionResponse in _extract_question_batch
\* succeeds: the keys read with q[...] exist, the enums accept the values,
\* the number is within ge=1, le=85
QuestionResponseValid(q) ==
    /\ {"question_number", "question_text", "answer", "sentiment"} \subseteq DOMAIN q
    /\ q["question_number"] >= QUESTION_NUMBER_MIN
    /\ q["question_number"] <= QUESTION_NUMBER_MAX
    /\ q["answer"] \in AnswerType
    /\ q["sentiment"] \in SentimentType

\* ActionItem(**item) succeeds
ActionItemValid(item) ==
    /\ {"item_number", "description", "action_to_be_taken", "responsible", "due_date"} \subseteq DOMAIN item
    /\ item["item_number"] >= 1

RiskFlags == {"site_level_risks_identified", "cra_level_risks_identified", "impact_country_level", "impact_study_level"}

\* RiskAssessment(**d) succeeds
RiskAssessmentValid(d) ==
    /\ RiskFlags \cup {"narrative"} \subseteq DOMAIN d
    /\ \A f \in RiskFlags : d[f] \in BOOLEAN
    /\ d["narrative"] /= None

\* the strings of this model that match MOVReport.protocol_number's pattern
\* r"Protocol (?:ANT-)?[\w\-]+"
ProtocolPatternMatches(p) == p \in {"Protocol ANT-007", "Protocol MAGNOLIA", "Protocol UNKNOWN"}

\* DataQualityFlags: completeness_score has ge=0.0, le=1.0. The score is
\* kept in thousandths.
DataQualityFlagsValid(dq) == dq.completeness_score >= 0 /\ dq.completeness_score <= 1000

\* ------------------------------------------------------------------------
\* Sub-extractors. A reply is what _call_llm followed by json.loads yields
\* for one call: ok = FALSE when the call or the parse raises.
\* ------------------------------------------------------------------------

Raised(why) == [raised |-> TRUE, exc |-> why, value |-> <<>>]

Returned(v) == [raised |-> FALSE, exc |-> "", value |-> v]

_extract_header(reply) == IF reply.ok THEN Returned(reply.data) ELSE Raised("header")

\* question i of the reply to batch b, numbered n
Question(n, b, i) ==
    [question_number |-> n, question_text |-> <<b, i>>, answer |-> "Yes", sentiment |-> "Positive"]

RangeData(b, lo, hi) == [i \in 1..(hi - lo + 1) |-> Question(lo + i - 1, b, i)]

ExactData(b) == RangeData(b, batches[b][1], batches[b][2])

\* The text of a reply to a question-batch call is kept as a description
\* [kind, batch, arg] of its content; this is the list json.loads and the
\* "questions" lookup of line 305 make of it:
\*   exact       the questions of the requested range
\*   short       the range without its last arg questions
\*   extra       the range, then its first arg questions once more
\*   foreign     the range, then the first question of the next range
\*   bad_number  the range, then a question numbered 86
\*   bad_answer  the range, the first answer outside AnswerType
\*   empty       no question
\*   bulk        arg questions numbered 1, 2, ..., 85, 1, 2, ...
QuestionsData(text) ==
    LET b == text.batch
        n == Len(ExactData(b))
        next == (b % Len(batches)) + 1
    IN  CASE text.kind = "exact" -> ExactData(b)
          [] text.kind = "short" -> RangeData(b, batches[b][1], batches[b][2] - text.arg)
          [] text.kind = "extra" ->
                ExactData(b) \o [i \in 1..text.arg |-> Question(batches[b][1] + i - 1, b, n + i)]
          [] text.kind = "foreign" -> Append(ExactData(b), Question(batches[next][1], b, n + 1))
          [] text.kind = "bad_number" -> Append(ExactData(b), Question(QUESTION_NUMBER_MAX + 1, b, n + 1))
          [] text.kind = "bad_answer" -> [ExactData(b) EXCEPT ![1] = [@ EXCEPT !.answer = "Maybe"]]
          [] text.kind = "bulk" ->
                [i \in 1..text.arg |-> Question(((i - 1) % QUESTION_NUMBER_MAX) + 1, b, i)]
          [] OTHER -> <<>>

\* lines 301-319: _call_llm raises (kind error), json.loads raises (kind
\* not_json), or one QuestionResponse of the list comprehension is rejected
\* chunked_extractor.py lines 406-424: chat.completions.create is called
\* without a timeout, so _call_llm returns when the Inference Service
\* answers, with the reply or with the error raised; it does not return
\* while the service stays silent
_call_llm_returns(text) == text.kind /= "no_answer"

_extract_question_batch(text) ==
    IF text.kind \in {"error", "not_json"} THEN Raised(text.kind)
    ELSE IF \E i \in 1..Len(QuestionsData(text)) : ~QuestionResponseValid(QuestionsData(text)[i])
         THEN Raised("schema")
         ELSE Returned(QuestionsData(text))

_extract_action_items(reply) ==
    IF ~reply.ok THEN Raised("inference")
    ELSE IF \E i \in 1..Len(reply.data) : ~ActionItemValid(reply.data[i])
         THEN Raised("schema")
         ELSE Returned(reply.data)

_extract_assessment(reply) == IF reply.ok THEN Returned(reply.data) ELSE Raised("inference")

\* list.sort(key=lambda q: q.question_number): a stable sort; every number
\* is within 1..85 once the QuestionResponse objects exist.
\* SortBetween: the questions of s numbered lo..hi, by number, each number's
\* questions in the order they have in s; the range is halved to keep the
\* evaluation shallow
RECURSIVE SortBetween(_, _, _)
SortBetween(s, lo, hi) ==
    IF lo > hi THEN <<>>
    ELSE IF lo = hi THEN SelectSeq(s, LAMBDA q : q.question_number = lo)
    ELSE SortBetween(s, lo, (lo + hi) \div 2) \o SortBetween(s, ((lo + hi) \div 2) + 1, hi)

SortFrom(s, k) == SortBetween(s, k, QUESTION_NUMBER_MAX)

SortByQuestionNumber(s) == SortFrom(s, QUESTION_NUMBER_MIN)

\* ------------------------------------------------------------------------
\* Report assembly: extract_report_chunked, lines 55-152
\* ------------------------------------------------------------------------

\* VisitTypeValue without the conversion to the enum
VisitTypeValueUnchecked(header_data) ==
    IF Truthy(Get(header_data, "visit_type")) THEN header_data["visit_type"] ELSE None

\* lines 62-68: VisitType(header_data["visit_type"]), None when the value
\* is falsy or no member of the enum
VisitTypeValue(header_data) ==
    IF Truthy(Get(header_data, "visit_type")) /\ header_data["visit_type"] \in VisitType
    THEN header_data["visit_type"]
    ELSE None

\* lines 59, 66-67
FieldsInvalid(header_data) ==
    IF Truthy(Get(header_data, "visit_type")) /\ header_data["visit_type"] \notin VisitType
    THEN <<"visit_type">>
    ELSE <<>>

\* lines 58, 69-79: fields_missing as it stands at line 108
FieldsMissing(header_data) ==
    (IF Truthy(Get(header_data, "visit_type")) THEN <<>> ELSE <<"visit_type">>)
    \o (IF Truthy(Get(header_data, "visit_start_date")) THEN <<>> ELSE <<"visit_start_date">>)
    \o (IF Truthy(Get(header_data, "visit_end_date")) THEN <<>> ELSE <<"visit_end_date">>)

\* line 83
total_fields == Len(expected_fields) + EXPECTED_QUESTIONS

\* line 84
MissingCount(header_data, questions) ==
    Len(FieldsMissing(header_data)) + (EXPECTED_QUESTIONS - Len(questions))

\* line 85: max(0.0, 1.0 - missing_count / total_fields), as the numerator
\* of a fraction over total_fields
Completeness(header_data, questions) ==
    Max(0, total_fields - MissingCount(header_data, questions))

\* round(x, 3) of x = num / den, in thousandths (round half up: with
\* den = 89 no tie occurs unless num / den is already a whole thousandth)
Round3(num, den) == (2000 * num + den) \div (2 * den)

\* RequiresReview without the visit end date
RequiresReviewNoEndDate(header_data, questions) ==
    \/ Len(questions) < REVIEW_MIN_QUESTIONS
    \/ VisitTypeValue(header_data) = None
    \/ ~Truthy(Get(header_data, "visit_start_date"))
    \/ FieldsInvalid(header_data) /= <<>>

\* RequiresReview with "<= 70" for "< 70"
RequiresReviewAtMost(header_data, questions) ==
    \/ Len(questions) <= REVIEW_MIN_QUESTIONS
    \/ VisitTypeValue(header_data) = None
    \/ ~Truthy(Get(header_data, "visit_start_date"))
    \/ ~Truthy(Get(header_data, "visit_end_date"))
    \/ FieldsInvalid(header_data) /= <<>>

\* lines 88-94
RequiresReview(header_data, questions) ==
    \/ Len(questions) < REVIEW_MIN_QUESTIONS
    \/ VisitTypeValue(header_data) = None
    \/ ~Truthy(Get(header_data, "visit_start_date"))
    \/ ~Truthy(Get(header_data, "visit_end_date"))
    \/ Len(FieldsInvalid(header_data)) > 0

\* One entry of review_reasons: the text of the f-string with its
\* interpolated values kept apart
Reason(text, args) == [text |-> text, args |-> args]

\* ReviewReasons reporting the questions that are missing for those extracted
ReviewReasonsMissingCount(header_data, questions) ==
    (IF Len(questions) < REVIEW_MIN_QUESTIONS
     THEN <<Reason("Only {}/85 questions extracted", <<EXPECTED_QUESTIONS - Len(questions)>>)>> ELSE <<>>)
    \o (IF VisitTypeValue(header_data) = None
        THEN <<Reason("Visit type not specified", <<>>)>> ELSE <<>>)
    \o (IF ~Truthy(Get(header_data, "visit_start_date"))
        THEN <<Reason("Visit start date missing", <<>>)>> ELSE <<>>)
    \o (IF ~Truthy(Get(header_data, "visit_end_date"))
        THEN <<Reason("Visit end date missing", <<>>)>> ELSE <<>>)
    \o (IF FieldsInvalid(header_data) /= <<>>
        THEN <<Reason("Invalid fields: {}", FieldsInvalid(header_data))>> ELSE <<>>)

\* ReviewReasons with "<= 70" for "< 70"
ReviewReasonsAtMost(header_data, questions) ==
    (IF Len(questions) <= REVIEW_MIN_QUESTIONS
     THEN <<Reason("Only {}/85 questions extracted", <<Len(questions)>>)>> ELSE <<>>)
    \o (IF VisitTypeValue(header_data) = None
        THEN <<Reason("Visit type not specified", <<>>)>> ELSE <<>>)
    \o (IF ~Truthy(Get(header_data, "visit_start_date"))
        THEN <<Reason("Visit start date missing", <<>>)>> ELSE <<>>)
    \o (IF ~Truthy(Get(header_data, "visit_end_date"))
        THEN <<Reason("Visit end date missing", <<>>)>> ELSE <<>>)
    \o (IF FieldsInvalid(header_data) /= <<>>
        THEN <<Reason("Invalid fields: {}", FieldsInvalid(header_data))>> ELSE <<>>)

\* lines 96-106
ReviewReasons(header_data, questions) ==
    (IF Len(questions) < REVIEW_MIN_QUESTIONS
     THEN <<Reason("Only {}/85 questions extracted", <<Len(questions)>>)>> ELSE <<>>)
    \o (IF VisitTypeValue(header_data) = None
        THEN <<Reason("Visit type not specified", <<>>)>> ELSE <<>>)
    \o (IF ~Truthy(Get(header_data, "visit_start_date"))
        THEN <<Reason("Visit start date missing", <<>>)>> ELSE <<>>)
    \o (IF ~Truthy(Get(header_data, "visit_end_date"))
        THEN <<Reason("Visit end date missing", <<>>)>> ELSE <<>>)
    \o (IF FieldsInvalid(header_data) /= <<>>
        THEN <<Reason("Invalid fields: {}", FieldsInvalid(header_data))>> ELSE <<>>)

\* review_reason None: "; ".join is only applied to a non-empty list, so the
\* empty sequence of parts stands for None
NoReviewReason == <<>>

\* lines 108-114. pydantic copies the two lists it is given: what is
\* appended to fields_missing after line 108 does not reach data_quality.
DataQuality(header_data, questions) ==
    [fields_missing |-> FieldsMissing(header_data),
     fields_invalid |-> FieldsInvalid(header_data),
     completeness_score |-> Round3(Completeness(header_data, questions), total_fields),
     requires_review |-> RequiresReview(header_data, questions),
     review_reason |-> IF ReviewReasons(header_data, questions) /= <<>>
                       THEN Join(ReviewReasons(header_data, questions))
                       ELSE NoReviewReason]

\* \d of the re module matches every Unicode decimal digit (category Nd)
ReDigit == AsciiDigit \cup {"U+0663"}

FilenameMatchAt(source_file, i) ==
    /\ i + SITE_NUMBER_LEN + 1 <= Len(source_file)
    /\ source_file[i] = "_"
    /\ \A k \in 1..SITE_NUMBER_LEN : source_file[i + k] \in ReDigit
    /\ source_file[i + SITE_NUMBER_LEN + 1] = "_"

\* line 121: re.search(r'_(\d{6})_', source_file), group(1) of the leftmost
\* match, the empty sequence when nothing matches
FilenameSiteNumber(source_file) ==
    LET hits == {i \in 1..Len(source_file) : FilenameMatchAt(source_file, i)}
    IN  IF hits = {} THEN <<>>
        ELSE LET i == CHOOSE m \in hits : \A n \in hits : m <= n
             IN  SubSeq(source_file, i + 1, i + SITE_NUMBER_LEN)

Placeholder == <<"0", "0", "0", "0", "0", "0">>

SetKey(d, key, v) == [k \in DOMAIN d \cup {key} |-> IF k = key THEN v ELSE d[k]]

\* lines 117-130: site_info_data after the fallback
SiteInfoData(header_data, source_file) ==
    LET d == header_data["site_info"]
    IN  IF "site_number" \in DOMAIN d /\ d["site_number"] /= <<>> THEN d
        ELSE IF FilenameSiteNumber(source_file) /= <<>>
             THEN SetKey(d, "site_number", FilenameSiteNumber(source_file))
             ELSE SetKey(d, "site_number", Placeholder)

KeyList(assessment_data, key) ==
    IF key \in DOMAIN assessment_data THEN assessment_data[key] ELSE <<>>

\* lines 133-141: the first keyword argument of MOVReport(...) whose
\* evaluation raises, "" when none does
KwargsError(header_data, assessment_data, source_file) ==
    IF "protocol_number" \notin DOMAIN header_data THEN "KeyError: protocol_number"
    ELSE IF ~SiteInfoValid(SiteInfoData(header_data, source_file)) THEN "ValidationError: site_info"
    ELSE IF "visit_start_date" \notin DOMAIN header_data THEN "KeyError: visit_start_date"
    ELSE IF "visit_end_date" \notin DOMAIN header_data THEN "KeyError: visit_end_date"
    ELSE IF "recruitment_stats" \notin DOMAIN header_data THEN "KeyError: recruitment_stats"
    ELSE IF ~RecruitmentStatsValid(header_data["recruitment_stats"]) THEN "ValidationError: recruitment_stats"
    ELSE IF "risk_assessment" \notin DOMAIN assessment_data THEN "KeyError: risk_assessment"
    ELSE IF ~RiskAssessmentValid(assessment_data["risk_assessment"]) THEN "ValidationError: risk_assessment"
    ELSE ""

\* MOVReportError without the pattern of protocol_number
MOVReportErrorNoPattern(header_data, questions, assessment_data) ==
    IF Len(questions) < 1 THEN "ValidationError: question_responses"
    ELSE IF Get(assessment_data, "overall_site_quality") \notin OverallSiteQuality \cup {None}
         THEN "ValidationError: overall_site_quality"
    ELSE IF Len(KeyList(assessment_data, "key_concerns")) > KEY_LIST_MAX THEN "ValidationError: key_concerns"
    ELSE IF Len(KeyList(assessment_data, "key_strengths")) > KEY_LIST_MAX THEN "ValidationError: key_strengths"
    ELSE ""

\* MOVReportError without min_length=1 of question_responses
MOVReportErrorNoMinLength(header_data, questions, assessment_data) ==
    IF ~ProtocolPatternMatches(header_data["protocol_number"]) THEN "ValidationError: protocol_number"
    ELSE IF Get(assessment_data, "overall_site_quality") \notin OverallSiteQuality \cup {None}
         THEN "ValidationError: overall_site_quality"
    ELSE IF Len(KeyList(assessment_data, "key_concerns")) > KEY_LIST_MAX THEN "ValidationError: key_concerns"
    ELSE IF Len(KeyList(assessment_data, "key_strengths")) > KEY_LIST_MAX THEN "ValidationError: key_strengths"
    ELSE ""

\* MOVReport's own field constraints (models.py lines 128-149): the
\* protocol pattern, min_length=1 of question_responses, the Literal of
\* overall_site_quality, max_length=10 of the two key lists
MOVReportError(header_data, questions, assessment_data) ==
    IF ~ProtocolPatternMatches(header_data["protocol_number"]) THEN "ValidationError: protocol_number"
    ELSE IF Len(questions) < 1 THEN "ValidationError: question_responses"
    ELSE IF Get(assessment_data, "overall_site_quality") \notin OverallSiteQuality \cup {None}
         THEN "ValidationError: overall_site_quality"
    ELSE IF Len(KeyList(assessment_data, "key_concerns")) > KEY_LIST_MAX THEN "ValidationError: key_concerns"
    ELSE IF Len(KeyList(assessment_data, "key_strengths")) > KEY_LIST_MAX THEN "ValidationError: key_strengths"
    ELSE ""

\* The first statement of lines 108-150 that raises, "" when none does
AssembleError(header_data, questions, action_items, assessment_data, source_file) ==
    IF ~DataQualityFlagsValid(DataQuality(header_data, questions)) THEN "ValidationError: data_quality"
    ELSE IF "site_info" \notin DOMAIN header_data THEN "KeyError: site_info"
    ELSE IF KwargsError(header_data, assessment_data, source_file) /= ""
         THEN KwargsError(header_data, assessment_data, source_file)
    ELSE MOVReportError(header_data, questions, assessment_data)

\* lines 132-150: the MOVReport (the timestamp and the model name are left
\* out: nothing reads them)
MOVReport(header_data, questions, action_items, assessment_data, source_file) ==
    [protocol_number |-> header_data["protocol_number"],
     site_info |-> SiteInfoData(header_data, source_file),
     visit_start_date |-> header_data["visit_start_date"],
     visit_end_date |-> header_data["visit_end_date"],
     visit_type |-> VisitTypeValue(header_data),
     recruitment_stats |-> header_data["recruitment_stats"],
     question_responses |-> questions,
     action_items |-> action_items,
     risk_assessment |-> assessment_data["risk_assessment"],
     overall_site_quality |-> Get(assessment_data, "overall_site_quality"),
     key_concerns |-> KeyList(assessment_data, "key_concerns"),
     key_strengths |-> KeyList(assessment_data, "key_strengths"),
     data_quality |-> DataQuality(header_data, questions),
     source_file |-> source_file,
     extraction_method |-> "chunked_parallel"]

NoReport == [extraction_method |-> "none"]

\* ------------------------------------------------------------------------
\* The stores' save_report
\* ------------------------------------------------------------------------

\* the date strings datetime.fromisoformat accepts
IsIsoDate(s) == s \in {"2025-04-02", "2025-04-03"}

\* report.model_dump_json(): the JSON text, kept as the value it encodes
model_dump_json(report) == [json |-> report]

ReportRecord(id, report) ==
    [id |-> id,
     protocol_number |-> report.protocol_number,
     site_number |-> report.site_info["site_number"],
     visit_date |-> IF Truthy(report.visit_start_date) THEN report.visit_start_date ELSE None,
     visit_type |-> report.visit_type,
     overall_quality |-> report.overall_site_quality,
     json_data |-> model_dump_json(report),
     source_file |-> report.source_file,
     completeness_score |-> report.data_quality.completeness_score,
     requires_review |-> report.data_quality.requires_review,
     review_reason |-> report.data_quality.review_reason]

\* Merge as an insert that leaves an existing row alone
MergeKeepFirst(table, record) ==
    [k \in DOMAIN table \cup {record.id} |-> IF k \in DOMAIN table THEN table[k] ELSE record]

\* session.merge(record); session.commit(): insert or update by primary key
Merge(table, record) ==
    [k \in DOMAIN table \cup {record.id} |-> IF k = record.id THEN record ELSE table[k]]

\* PostgreSQLDatabase.save_report: the id, and whether the call raises
PostgresReportId(report) ==
    <<report.site_info["site_number"],
      IF Truthy(report.visit_start_date) THEN report.visit_start_date ELSE "UNKNOWN">>

PostgresSaveRaises(report) ==
    Truthy(report.visit_start_date) /\ ~IsIsoDate(report.visit_start_date)

\* SQLiteDatabase.save_report: f"{site_number}_{visit_start_date}" formats
\* None as the text None, and datetime.fromisoformat(None) raises TypeError
SQLiteReportId(report) == <<report.site_info["site_number"], report.visit_start_date>>

SQLiteSaveRaises(report) == ~IsIsoDate(report.visit_start_date)

ReportId(kind, report) ==
    IF kind = "postgres" THEN PostgresReportId(report) ELSE SQLiteReportId(report)

SaveRaises(kind, report) ==
    IF kind = "postgres" THEN PostgresSaveRaises(report) ELSE SQLiteSaveRaises(report)

\* save_report: the table after the call (unchanged when it raises)
save_report(kind, table, report) ==
    IF SaveRaises(kind, report) THEN table
    ELSE Merge(table, ReportRecord(ReportId(kind, report), report))

\* ------------------------------------------------------------------------
\* LLMExtractor.extract_report (src/src/extraction/llm_extractor.py): one
\* call whose reply is the whole report
\* ------------------------------------------------------------------------

\* DataQualityFlags(): the defaults of models.py (completeness_score 1.0,
\* in thousandths)
DefaultDataQualityFlags ==
    [fields_missing |-> <<>>, fields_invalid |-> <<>>,
     completeness_score |-> 1000,
     requires_review |-> FALSE, review_reason |-> <<>>]

\* QuestionResponse(**q) as pydantic validates it: sentiment has a default
QuestionResponseModelValid(q) ==
    /\ {"question_number", "question_text", "answer"} \subseteq DOMAIN q
    /\ q["question_number"] >= QUESTION_NUMBER_MIN
    /\ q["question_number"] <= QUESTION_NUMBER_MAX
    /\ q["answer"] \in AnswerType
    /\ ("sentiment" \in DOMAIN q => q["sentiment"] \in SentimentType)

\* MOVReport(**result_json) of line 149 succeeds
MOVReportModelValid(d) ==
    /\ {"protocol_number", "site_info", "recruitment_stats", "question_responses", "risk_assessment"}
          \subseteq DOMAIN d
    /\ ProtocolPatternMatches(d["protocol_number"])
    /\ SiteInfoValid(d["site_info"])
    /\ Get(d, "visit_type") \in VisitType \cup {None}
    /\ RecruitmentStatsValid(d["recruitment_stats"])
    /\ Len(d["question_responses"]) >= 1
    /\ \A i \in 1..Len(d["question_responses"]) : QuestionResponseModelValid(d["question_responses"][i])
    /\ \A i \in 1..Len(KeyList(d, "action_items")) : ActionItemValid(d["action_items"][i])
    /\ RiskAssessmentValid(d["risk_assessment"])
    /\ Get(d, "overall_site_quality") \in OverallSiteQuality \cup {None}
    /\ Len(KeyList(d, "key_concerns")) <= KEY_LIST_MAX
    /\ Len(KeyList(d, "key_strengths")) <= KEY_LIST_MAX
    /\ ("data_quality" \in DOMAIN d => DataQualityFlagsValid(d["data_quality"]))

\* the MOVReport of line 149, every absent field at its default
MOVReportModel(d, source_file) ==
    [protocol_number |-> d["protocol_number"],
     site_info |-> d["site_info"],
     visit_start_date |-> Get(d, "visit_start_date"),
     visit_end_date |-> Get(d, "visit_end_date"),
     visit_type |-> Get(d, "visit_type"),
     recruitment_stats |-> d["recruitment_stats"],
     question_responses |-> d["question_responses"],
     action_items |-> KeyList(d, "action_items"),
     risk_assessment |-> d["risk_assessment"],
     overall_site_quality |-> Get(d, "overall_site_quality"),
     key_concerns |-> KeyList(d, "key_concerns"),
     key_strengths |-> KeyList(d, "key_strengths"),
     data_quality |-> IF "data_quality" \in DOMAIN d THEN d["data_quality"] ELSE DefaultDataQualityFlags,
     source_file |-> source_file,
     extraction_method |-> "llm_first"]

\* lines 92-163: the call raises, json.loads raises, or the validation of
\* line 149 raises; every exception is logged and re-raised
extract_report(reply, source_file) ==
    IF ~reply.ok THEN Raised("inference")
    ELSE IF ~MOVReportModelValid(reply.data) THEN Raised("ValidationError")
    ELSE Returned(MOVReportModel(reply.data, source_file))

\* ------------------------------------------------------------------------
\* The stores' get_report, list_reports and delete_report
\* (src/src/database/postgres_db.py, sqlite_db.py)
\* ------------------------------------------------------------------------

\* MOVReport.model_validate_json(text): the JSON object is validated as
\* MOVReport(**d) would, and the report is built from its keys, an absent
\* key taking the default of its field
model_validate_json(text) ==
    LET d == text.json IN
    IF ~MOVReportModelValid(d) \/ "source_file" \notin DOMAIN d
    THEN Raised("ValidationError")
    ELSE Returned([MOVReportModel(d, d["source_file"]) EXCEPT
                     !.extraction_method = IF "extraction_method" \in DOMAIN d
                                           THEN d["extraction_method"] ELSE "llm_first"])

\* get_report: None (kept as NoReport) when no row has the id
get_report(table, report_id) ==
    IF report_id \in DOMAIN table
    THEN model_validate_json(table[report_id].json_data)
    ELSE Returned(NoReport)

\* the rows query.order_by(...).limit(limit).offset(offset).all() yields
\* with the default limit and no filter: every row. The list is kept as
\* the set of its elements.
ListRows(table) == {table[k] : k \in DOMAIN table}

\* PostgreSQLDatabase.list_reports, line 134: (r.id, report) tuples
PostgresListReports(table) ==
    IF \E r \in ListRows(table) : model_validate_json(r.json_data).raised
    THEN Raised("ValidationError")
    ELSE Returned({[tuple |-> TRUE, id |-> r.id, report |-> model_validate_json(r.json_data).value] :
                      r \in ListRows(table)})

\* SQLiteDatabase.list_reports, line 102: the reports alone
SQLiteListReports(table) ==
    IF \E r \in ListRows(table) : model_validate_json(r.json_data).raised
    THEN Raised("ValidationError")
    ELSE Returned({[tuple |-> FALSE, report |-> model_validate_json(r.json_data).value] :
                      r \in ListRows(table)})

list_reports(kind, table) ==
    IF kind = "postgres" THEN PostgresListReports(table) ELSE SQLiteListReports(table)

\* delete_report: the table after the call, and what the call returns
DeleteFrom(table, report_id) == [k \in DOMAIN table \ {report_id} |-> table[k]]

delete_report(table, report_id) == Returned(report_id \in DOMAIN table)

\* save_report as a call: the id it returns, or the exception
SaveOutcome(kind, r) ==
    IF SaveRaises(kind, r) THEN Raised("fromisoformat") ELSE Returned(ReportId(kind, r))

\* ------------------------------------------------------------------------
\* ReportValidator (src/src/extraction/validator.py)
\* ------------------------------------------------------------------------

\* _check_question_coverage, lines 65-66
expected_min == 70

target == 76

\* config.CONFIDENCE_THRESHOLD (0.7), in hundredths
CONFIDENCE_THRESHOLD == 70

\* a comprehension over a sequence, in order
RECURSIVE SelectFrom(_, _, _)
SelectFrom(s, keep, i) ==
    IF i > Len(s) THEN <<>>
    ELSE (IF keep[i] THEN <<s[i]>> ELSE <<>>) \o SelectFrom(s, keep, i + 1)

\* CoverageIssues with a minimum that the count has to exceed
CoverageIssuesAtMost(report) ==
    IF Len(report.question_responses) <= expected_min
    THEN <<Reason("Insufficient questions extracted: {}/85 (minimum: {})",
                  <<Len(report.question_responses), expected_min>>)>>
    ELSE <<>>

\* _check_question_coverage, lines 70-74: what it appends to issues
CoverageIssues(report) ==
    IF Len(report.question_responses) < expected_min
    THEN <<Reason("Insufficient questions extracted: {}/85 (minimum: {})",
                  <<Len(report.question_responses), expected_min>>)>>
    ELSE <<>>

\* lines 75-79: what it appends to warnings
CoverageWarnings(report) ==
    IF Len(report.question_responses) >= expected_min /\ Len(report.question_responses) < target
    THEN <<Reason("Below target question count: {}/85 (target: {})",
                  <<Len(report.question_responses), target>>)>>
    ELSE <<>>

\* line 68 and 81: total_questions / 85 * 100, kept as a fraction
_check_question_coverage(report) ==
    [num |-> Len(report.question_responses) * 100, den |-> EXPECTED_QUESTIONS]

\* _validate_recruitment_stats without the check of completed_treatment
ValidateRecruitmentTwoRules(report) ==
    LET stats == report.recruitment_stats IN
    (IF stats["screened"] < stats["randomized_enrolled"] + stats["screen_failures"]
     THEN <<Reason("Recruitment math error: screened ({}) < randomized ({}) + failures ({})",
                   <<stats["screened"], stats["randomized_enrolled"], stats["screen_failures"]>>)>>
     ELSE <<>>)
    \o (IF stats["early_discontinued"] > stats["randomized_enrolled"]
        THEN <<Reason("Discontinued ({}) > randomized ({})",
                      <<stats["early_discontinued"], stats["randomized_enrolled"]>>)>>
        ELSE <<>>)

\* _validate_recruitment_stats: what it appends to issues
_validate_recruitment_stats(report) ==
    LET stats == report.recruitment_stats IN
    (IF stats["screened"] < stats["randomized_enrolled"] + stats["screen_failures"]
     THEN <<Reason("Recruitment math error: screened ({}) < randomized ({}) + failures ({})",
                   <<stats["screened"], stats["randomized_enrolled"], stats["screen_failures"]>>)>>
     ELSE <<>>)
    \o (IF stats["early_discontinued"] > stats["randomized_enrolled"]
        THEN <<Reason("Discontinued ({}) > randomized ({})",
                      <<stats["early_discontinued"], stats["randomized_enrolled"]>>)>>
        ELSE <<>>)
    \o (IF stats["completed_treatment"] > stats["randomized_enrolled"]
        THEN <<Reason("Completed treatment ({}) > randomized ({})",
                      <<stats["completed_treatment"], stats["randomized_enrolled"]>>)>>
        ELSE <<>>)

\* QuestionResponse.confidence, default 1.0, in hundredths
Confidence(q) == IF "confidence" \in DOMAIN q THEN q["confidence"] ELSE 100

\* _check_confidence_levels: what it appends to warnings
_check_confidence_levels(report) ==
    LET low_confidence == {i \in 1..Len(report.question_responses) :
                              Confidence(report.question_responses[i]) < CONFIDENCE_THRESHOLD} IN
    IF low_confidence /= {}
    THEN <<Reason("{} questions have low confidence (< {})",
                  <<Cardinality(low_confidence), CONFIDENCE_THRESHOLD>>)>>
    ELSE <<>>

\* _validate_action_items: what it appends to warnings
_validate_action_items(report) ==
    (IF Len(report.action_items) = 0
     THEN <<Reason("No action items found in report", <<>>)>> ELSE <<>>)
    \o SelectFrom([i \in 1..Len(report.action_items) |->
                      Reason("Action item {} has missing fields",
                             <<report.action_items[i]["item_number"]>>)],
                  [i \in 1..Len(report.action_items) |->
                      \/ ~Truthy(report.action_items[i]["description"])
                      \/ ~Truthy(report.action_items[i]["action_to_be_taken"])],
                  1)

\* _identify_critical_findings
_identify_critical_findings(report) ==
    SelectFrom([i \in 1..Len(report.question_responses) |->
                   Reason("Q{}: {}", <<report.question_responses[i]["question_number"],
                                       Get(report.question_responses[i], "key_finding")>>)],
               [i \in 1..Len(report.question_responses) |->
                   /\ report.question_responses[i]["answer"] = "No"
                   /\ Truthy(Get(report.question_responses[i], "key_finding"))],
               1)
    \o (IF report.risk_assessment["site_level_risks_identified"]
        THEN <<Reason("Site-level risks identified", <<>>)>> ELSE <<>>)
    \o (IF report.risk_assessment["cra_level_risks_identified"]
        THEN <<Reason("CRA-level risks identified", <<>>)>> ELSE <<>>)

\* _calculate_quality_score with three warnings still graded Good
QualityScoreGoodUpToThree(issues, warnings) ==
    IF Len(issues) > 0 THEN "Poor"
    ELSE IF Len(warnings) = 0 THEN "Excellent"
    ELSE IF Len(warnings) <= 3 THEN "Good"
    ELSE IF Len(warnings) <= 5 THEN "Fair"
    ELSE "Needs Review"

\* _calculate_quality_score
_calculate_quality_score(issues, warnings) ==
    IF Len(issues) > 0 THEN "Poor"
    ELSE IF Len(warnings) = 0 THEN "Excellent"
    ELSE IF Len(warnings) <= 2 THEN "Good"
    ELSE IF Len(warnings) <= 5 THEN "Fair"
    ELSE "Needs Review"

\* validate, lines 25-55
validate(report) ==
    LET issues == CoverageIssues(report) \o _validate_recruitment_stats(report)
        warnings == CoverageWarnings(report) \o _check_confidence_levels(report)
                        \o _validate_action_items(report)
    IN  [is_valid |-> Len(issues) = 0,
         data_quality |-> _calculate_quality_score(issues, warnings),
         question_coverage |-> _check_question_coverage(report),
         issues |-> issues,
         warnings |-> warnings,
         critical_findings |-> _identify_critical_findings(report),
         total_questions |-> Len(report.question_responses),
         action_items_count |-> Len(report.action_items)]

\* ------------------------------------------------------------------------
\* State
\* ------------------------------------------------------------------------

VARIABLES
    caller,             \* "upload_report", "batch_extract", "process_report" or
                        \* "store_client": what runs
    config,             \* [DATABASE_URL, save_to_db]: configuration and CLI flags
    files,              \* the documents handed to the caller, each with the
                        \* replies the Inference Service gives about it
    file_i,             \* batch main: index of the file being processed
    reports,            \* batch main: reports
    failed_files,       \* batch main: failed_files
    save_i,             \* batch main: index in the save loop
    db,                 \* the mov_reports table: id -> record
    response,           \* upload_report: the HTTP response
    cpc,                \* the caller's position
    result,             \* process_report: the dict it returns
    exit_code,          \* the exit code of the command-line process
    save_calls,         \* the calls of save_report made so far
    client,             \* a client of the store interface: the two stores it
                        \* drives side by side, its last call and what each
                        \* store answered
    api,                \* the API's singletons, their locks and the threads
                        \* that call get_db and get_analytics
    pc,                 \* extract_report_chunked's position
    source_file,        \* extract_report_chunked: source_file
    header_data,        \* extract_report_chunked: header_data
    futures,            \* _extract_questions_parallel: the six futures
    yielded,            \* the futures as_completed has yielded so far
    all_questions,      \* _extract_questions_parallel: all_questions
    questions,          \* extract_report_chunked: questions
    action_future,      \* extract_report_chunked: action_future
    assessment_future,  \* extract_report_chunked: assessment_future
    action_items,       \* extract_report_chunked: action_items
    assessment_data,    \* extract_report_chunked: assessment_data
    report,             \* the MOVReport extract_report_chunked returned
    error               \* the exception extract_report_chunked raised

callerVars == <<caller, config, files, file_i, reports, failed_files, save_i, db, response, cpc,
                result, exit_code, save_calls, client, api>>

extractVars == <<pc, source_file, header_data, futures, yielded, all_questions, questions,
                 action_future, assessment_future, action_items, assessment_data, report, error>>

vars == <<callerVars, extractVars>>

\* the replies of the Inference Service to the calls about pdf_text, the
\* text of the file being processed
llm == files[file_i].llm

NoFuture == [state |-> "none", outcome |-> Returned(<<>>)]

Pending == [state |-> "pending", outcome |-> Returned(<<>>)]

\* a call that is queued again when it failed
RequeueOnFailure(outcome) ==
    IF outcome.raised THEN Pending ELSE [state |-> "finished", outcome |-> outcome]

Finished(outcome) == [state |-> "finished", outcome |-> outcome]

NoResponse == [status_code |-> 0, detail |-> ""]

\* process_report has not returned
NoResult == [status |-> "none"]

\* the process is running
NotExited == 0 - 1

\* one call of save_report: the caller's index of the report, the store,
\* and whether the call raised
SaveCall(i, kind, r) == [report |-> i, kind |-> kind, raised |-> SaveRaises(kind, r)]

\* the locals of extract_report_chunked before a call and after its frame
\* is gone
ExtractIdle ==
    /\ pc = "idle"
    /\ source_file = <<>>
    /\ header_data = <<>>
    /\ futures = [b \in Batch |-> NoFuture]
    /\ yielded = {}
    /\ all_questions = <<>>
    /\ questions = <<>>
    /\ action_future = NoFuture
    /\ assessment_future = NoFuture
    /\ action_items = <<>>
    /\ assessment_data = <<>>
    /\ report = NoReport
    /\ error = ""

\* ------------------------------------------------------------------------
\* extract_report_chunked
\* ------------------------------------------------------------------------

\* the call extract_report_chunked(document_text, name)
CallExtract(f) ==
    /\ pc' = "extract_header"
    /\ source_file' = f.name
    /\ UNCHANGED <<header_data, futures, yielded, all_questions, questions, action_future,
                   assessment_future, action_items, assessment_data, report, error>>

\* line 39: header_data = self._extract_header(pdf_text, temperature)
ExtractHeader ==
    /\ pc = "extract_header"
    /\ LET r == _extract_header(llm.header)
       IN  IF r.raised
           THEN /\ pc' = "raised"
                /\ error' = "header"
                /\ UNCHANGED header_data
           ELSE /\ pc' = "submit_batches"
                /\ header_data' = r.value
                /\ UNCHANGED error
    /\ UNCHANGED <<source_file, futures, yielded, all_questions, questions, action_future,
                   assessment_future, action_items, assessment_data, report>>
    /\ UNCHANGED callerVars

\* lines 230-236: the six submits
SubmitBatches ==
    /\ pc = "submit_batches"
    /\ futures' = [b \in Batch |-> Pending]
    /\ pc' = "as_completed"
    /\ UNCHANGED <<source_file, header_data, yielded, all_questions, questions, action_future,
                   assessment_future, action_items, assessment_data, report, error>>
    /\ UNCHANGED callerVars

RunningBatches == {b \in Batch : futures[b].state = "running"}

\* a pool whose threads are never all busy
PoolNeverFull(running, max_workers) == TRUE

\* ThreadPoolExecutor: a work item is started only while fewer than
\* max_workers threads are busy
PoolHasIdleWorker(running, max_workers) == Cardinality(running) < max_workers

\* a worker thread of the pool takes the oldest queued work item; the pool
\* has at most max_workers threads
WorkerStartBatch(b) ==
    /\ futures[b].state = "pending"
    /\ \A c \in Batch : c < b => futures[c].state /= "pending"
    /\ PoolHasIdleWorker(RunningBatches, QUESTION_WORKERS)
    /\ futures' = [futures EXCEPT ![b].state = "running"]
    /\ UNCHANGED <<pc, source_file, header_data, yielded, all_questions, questions, action_future,
                   assessment_future, action_items, assessment_data, report, error>>
    /\ UNCHANGED callerVars

\* the worker runs _extract_question_batch and sets the future's result or
\* exception
WorkerFinishBatch(b) ==
    /\ futures[b].state = "running"
    /\ _call_llm_returns(llm.batch[b])
    /\ futures' = [futures EXCEPT ![b] = Finished(_extract_question_batch(llm.batch[b]))]
    /\ UNCHANGED <<pc, source_file, header_data, yielded, all_questions, questions, action_future,
                   assessment_future, action_items, assessment_data, report, error>>
    /\ UNCHANGED callerVars

\* Collect without the try/except of lines 241-245
CollectNoExcept(list, outcome) ==
    [raised |-> outcome.raised,
     list |-> list \o outcome.value]

\* lines 240-245, the body of the loop: try: all_questions.extend(
\* future.result()); except Exception: log. The list after the iteration,
\* and whether an exception leaves the loop.
Collect(list, outcome) ==
    [raised |-> FALSE,
     list |-> IF outcome.raised THEN list ELSE list \o outcome.value]

\* lines 238-245: one iteration of "for future in as_completed(futures)"
CollectBatch(b) ==
    /\ pc = "as_completed"
    /\ b \notin yielded
    /\ futures[b].state = "finished"
    /\ yielded' = yielded \cup {b}
    /\ IF Collect(all_questions, futures[b].outcome).raised
       THEN /\ pc' = "exit_raise"
            /\ error' = "question_batch"
            /\ UNCHANGED all_questions
       ELSE /\ all_questions' = Collect(all_questions, futures[b].outcome).list
            /\ UNCHANGED <<pc, error>>
    /\ UNCHANGED <<source_file, header_data, futures, questions, action_future,
                   assessment_future, action_items, assessment_data, report>>
    /\ UNCHANGED callerVars

\* an iterator that ends after the first future
AsCompletedFirstOnly(done) == done /= {}

\* as_completed(futures) ends when every future it was given was yielded
AsCompletedExhausted(done) == done = Batch

\* the loop is over once every future was yielded; lines 247-249 and line 43
ReturnQuestions ==
    /\ pc = "as_completed"
    /\ AsCompletedExhausted(yielded)
    /\ all_questions' = SortByQuestionNumber(all_questions)
    /\ questions' = SortByQuestionNumber(all_questions)
    /\ pc' = "submit_aux"
    /\ UNCHANGED <<source_file, header_data, futures, yielded, action_future,
                   assessment_future, action_items, assessment_data, report, error>>
    /\ UNCHANGED callerVars

\* lines 47-49
SubmitAux ==
    /\ pc = "submit_aux"
    /\ action_future' = Pending
    /\ assessment_future' = Pending
    /\ pc' = "action_result"
    /\ UNCHANGED <<source_file, header_data, futures, yielded, all_questions, questions,
                   action_items, assessment_data, report, error>>
    /\ UNCHANGED callerVars

RunningAux ==
    {n \in {"action_items", "assessment"} :
        (IF n = "action_items" THEN action_future ELSE assessment_future).state = "running"}

WorkerStartActionItems ==
    /\ action_future.state = "pending"
    /\ PoolHasIdleWorker(RunningAux, AUX_WORKERS)
    /\ action_future' = [action_future EXCEPT !.state = "running"]
    /\ UNCHANGED <<pc, source_file, header_data, futures, yielded, all_questions, questions,
                   assessment_future, action_items, assessment_data, report, error>>
    /\ UNCHANGED callerVars

WorkerFinishActionItems ==
    /\ action_future.state = "running"
    /\ action_future' = Finished(_extract_action_items(llm.action_items))
    /\ UNCHANGED <<pc, source_file, header_data, futures, yielded, all_questions, questions,
                   assessment_future, action_items, assessment_data, report, error>>
    /\ UNCHANGED callerVars

\* the assessment was submitted second: it is taken from the queue after
\* the action items
WorkerStartAssessment ==
    /\ assessment_future.state = "pending"
    /\ action_future.state /= "pending"
    /\ PoolHasIdleWorker(RunningAux, AUX_WORKERS)
    /\ assessment_future' = [assessment_future EXCEPT !.state = "running"]
    /\ UNCHANGED <<pc, source_file, header_data, futures, yielded, all_questions, questions,
                   action_future, action_items, assessment_data, report, error>>
    /\ UNCHANGED callerVars

WorkerFinishAssessment ==
    /\ assessment_future.state = "running"
    /\ assessment_future' = Finished(_extract_assessment(llm.assessment))
    /\ UNCHANGED <<pc, source_file, header_data, futures, yielded, all_questions, questions,
                   action_future, action_items, assessment_data, report, error>>
    /\ UNCHANGED callerVars

\* Future.result(): the value, or the exception re-raised in the caller
Result(future) == future.outcome

\* line 51: action_items = action_future.result()
ActionResult ==
    /\ pc = "action_result"
    /\ action_future.state = "finished"
    /\ IF Result(action_future).raised
       THEN /\ pc' = "exit_raise"
            /\ error' = "action_items"
            /\ UNCHANGED action_items
       ELSE /\ pc' = "assessment_result"
            /\ action_items' = Result(action_future).value
            /\ UNCHANGED error
    /\ UNCHANGED <<source_file, header_data, futures, yielded, all_questions, questions,
                   action_future, assessment_future, assessment_data, report>>
    /\ UNCHANGED callerVars

\* line 52: assessment_data = assessment_future.result()
AssessmentResult ==
    /\ pc = "assessment_result"
    /\ assessment_future.state = "finished"
    /\ IF Result(assessment_future).raised
       THEN /\ pc' = "exit_raise"
            /\ error' = "assessment"
            /\ UNCHANGED assessment_data
       ELSE /\ pc' = "assemble"
            /\ assessment_data' = Result(assessment_future).value
            /\ UNCHANGED error
    /\ UNCHANGED <<source_file, header_data, futures, yielded, all_questions, questions,
                   action_future, assessment_future, action_items, report>>
    /\ UNCHANGED callerVars

\* an exception leaves a with block (lines 232, 47): the executor's
\* shutdown(wait=True) joins the workers first
ExitRaise ==
    /\ pc = "exit_raise"
    /\ \A b \in Batch : futures[b].state \in {"none", "finished"}
    /\ action_future.state \in {"none", "finished"}
    /\ assessment_future.state \in {"none", "finished"}
    /\ pc' = "raised"
    /\ UNCHANGED <<source_file, header_data, futures, yielded, all_questions, questions,
                   action_future, assessment_future, action_items, assessment_data, report, error>>
    /\ UNCHANGED callerVars

\* lines 54-152: the report is built and returned, or the first failing
\* construction raises
Assemble ==
    /\ pc = "assemble"
    /\ LET e == AssembleError(header_data, questions, action_items, assessment_data, source_file)
       IN  IF e /= ""
           THEN /\ pc' = "raised"
                /\ error' = e
                /\ UNCHANGED report
           ELSE /\ pc' = "returned"
                /\ report' = MOVReport(header_data, questions, action_items, assessment_data, source_file)
                /\ UNCHANGED error
    /\ UNCHANGED <<source_file, header_data, futures, yielded, all_questions, questions,
                   action_future, assessment_future, action_items, assessment_data>>
    /\ UNCHANGED callerVars

\* the frame of extract_report_chunked is gone
ExtractReset ==
    /\ pc' = "idle"
    /\ source_file' = <<>>
    /\ header_data' = <<>>
    /\ futures' = [b \in Batch |-> NoFuture]
    /\ yielded' = {}
    /\ all_questions' = <<>>
    /\ questions' = <<>>
    /\ action_future' = NoFuture
    /\ assessment_future' = NoFuture
    /\ action_items' = <<>>
    /\ assessment_data' = <<>>
    /\ report' = NoReport
    /\ error' = ""

\* ------------------------------------------------------------------------
\* Callers
\* ------------------------------------------------------------------------

UpperCase == <<"A", "B", "C", "D", "E", "F", "G", "H", "I", "J", "K", "L", "M",
               "N", "O", "P", "Q", "R", "S", "T", "U", "V", "W", "X", "Y", "Z">>

LowerCase == <<"a", "b", "c", "d", "e", "f", "g", "h", "i", "j", "k", "l", "m",
               "n", "o", "p", "q", "r", "s", "t", "u", "v", "w", "x", "y", "z">>

\* str.lower()
Lower(s) ==
    [i \in 1..Len(s) |->
        IF \E k \in 1..Len(UpperCase) : UpperCase[k] = s[i]
        THEN LowerCase[CHOOSE k \in 1..Len(UpperCase) : UpperCase[k] = s[i]]
        ELSE s[i]]

\* Path(name).suffix: from the last dot, when it is neither the first nor
\* the last character
Suffix(name) ==
    LET dots == {i \in 2..Len(name) : name[i] = "."}
    IN  IF dots = {} THEN <<>>
        ELSE LET i == CHOOSE m \in dots : \A n \in dots : n <= m
             IN  IF i = Len(name) THEN <<>> ELSE SubSeq(name, i, Len(name))

SupportedSuffix == {<<".", "p", "d", "f">>, <<".", "d", "o", "c", "x">>}

\* upload_report, lines 131-157: the file type check, the parser, and the
\* call of extract_report_chunked
UploadReceive ==
    /\ caller = "upload_report"
    /\ cpc = "start"
    /\ IF Lower(Suffix(files[1].name)) \notin SupportedSuffix
       THEN /\ response' = [status_code |-> 400, detail |-> "Only PDF and DOCX files are accepted"]
            /\ cpc' = "done"
            /\ UNCHANGED extractVars
       ELSE IF ~files[1].text_ok
            THEN /\ response' = [status_code |-> 500, detail |-> "extract_text"]
                 /\ cpc' = "done"
                 /\ UNCHANGED extractVars
            ELSE /\ CallExtract(files[1])
                 /\ cpc' = "extracting"
                 /\ UNCHANGED response
    /\ UNCHANGED <<caller, config, files, file_i, reports, failed_files, save_i, db>>
    /\ UNCHANGED <<result, exit_code, save_calls>>
    /\ UNCHANGED <<client, api>>

\* upload_report, lines 158-171: get_db, save_report, the success response;
\* an exception of either is turned into the 500 of lines 173-175
UploadSave ==
    /\ caller = "upload_report"
    /\ cpc = "extracting"
    /\ pc = "returned"
    /\ IF ~config.DATABASE_URL
       THEN /\ response' = [status_code |-> 500, detail |-> "DATABASE_URL environment variable is required"]
            /\ UNCHANGED <<db, save_calls>>
       ELSE /\ save_calls' = Append(save_calls, SaveCall(1, "postgres", report))
            /\ IF SaveRaises("postgres", report)
               THEN /\ response' = [status_code |-> 500, detail |-> "save_report"]
                    /\ UNCHANGED db
               ELSE /\ db' = save_report("postgres", db, report)
                    /\ response' = [status_code |-> 200, detail |-> "success"]
    /\ cpc' = "done"
    /\ ExtractReset
    /\ UNCHANGED <<caller, config, files, file_i, reports, failed_files, save_i, result, exit_code>>
    /\ UNCHANGED <<client, api>>

\* upload_report, lines 173-175: extract_report_chunked raised
UploadFail ==
    /\ caller = "upload_report"
    /\ cpc = "extracting"
    /\ pc = "raised"
    /\ response' = [status_code |-> 500, detail |-> error]
    /\ cpc' = "done"
    /\ ExtractReset
    /\ UNCHANGED <<caller, config, files, file_i, reports, failed_files, save_i, db>>
    /\ UNCHANGED <<result, exit_code, save_calls>>
    /\ UNCHANGED <<client, api>>

\* batch main, line 208, and extract_document, lines 46-64: the next file
\* is parsed and handed to extract_report_chunked; a parser that raises
\* makes extract_document return None
BatchExtractDocument ==
    /\ caller = "batch_extract"
    /\ cpc = "files"
    /\ pc = "idle"
    /\ file_i <= Len(files)
    /\ IF ~files[file_i].text_ok \/ Lower(Suffix(files[file_i].name)) \notin SupportedSuffix
       THEN /\ failed_files' = Append(failed_files, files[file_i].name)
            /\ file_i' = file_i + 1
            /\ UNCHANGED extractVars
       ELSE /\ CallExtract(files[file_i])
            /\ UNCHANGED <<failed_files, file_i>>
    /\ UNCHANGED <<caller, config, files, reports, save_i, db, response, cpc>>
    /\ UNCHANGED <<result, exit_code, save_calls>>
    /\ UNCHANGED <<client, api>>

\* extract_document, lines 71-75, and batch main, lines 210-215
BatchCollect ==
    /\ caller = "batch_extract"
    /\ cpc = "files"
    /\ pc \in {"returned", "raised"}
    /\ IF pc = "returned"
       THEN /\ reports' = Append(reports, report)
            /\ UNCHANGED failed_files
       ELSE /\ failed_files' = Append(failed_files, files[file_i].name)
            /\ UNCHANGED reports
    /\ file_i' = file_i + 1
    /\ ExtractReset
    /\ UNCHANGED <<caller, config, files, save_i, db, response, cpc>>
    /\ UNCHANGED <<result, exit_code, save_calls>>
    /\ UNCHANGED <<client, api>>

\* batch main, lines 231-240: "if args.save_to_db and reports"; without
\* the save loop main returns after the summary of lines 249-256, and the
\* process ends with exit code 0
BatchBeginSave ==
    /\ caller = "batch_extract"
    /\ cpc = "files"
    /\ pc = "idle"
    /\ file_i > Len(files)
    /\ IF config.save_to_db /\ reports /= <<>>
       THEN cpc' = "save" /\ UNCHANGED exit_code
       ELSE cpc' = "done" /\ exit_code' = 0
    /\ UNCHANGED <<caller, config, files, file_i, reports, failed_files, save_i, db, response>>
    /\ UNCHANGED <<result, save_calls>>
    /\ UNCHANGED extractVars
    /\ UNCHANGED <<client, api>>

\* PostgreSQL if DATABASE_URL is set, otherwise SQLite (lines 235-240)
BatchDatabase == IF config.DATABASE_URL THEN "postgres" ELSE "sqlite"

\* batch main, lines 242-247: one iteration of the save loop; an exception
\* of save_report is logged
BatchSaveReport ==
    /\ caller = "batch_extract"
    /\ cpc = "save"
    /\ save_i <= Len(reports)
    /\ db' = save_report(BatchDatabase, db, reports[save_i])
    /\ save_calls' = Append(save_calls, SaveCall(save_i, BatchDatabase, reports[save_i]))
    /\ save_i' = save_i + 1
    /\ UNCHANGED <<caller, config, files, file_i, reports, failed_files, response, cpc>>
    /\ UNCHANGED <<result, exit_code>>
    /\ UNCHANGED extractVars
    /\ UNCHANGED <<client, api>>

\* batch main, lines 249-256: the summary; main returns and the process
\* ends with exit code 0
BatchDone ==
    /\ caller = "batch_extract"
    /\ cpc = "save"
    /\ save_i > Len(reports)
    /\ cpc' = "done"
    /\ exit_code' = 0
    /\ UNCHANGED <<caller, config, files, file_i, reports, failed_files, save_i, db, response>>
    /\ UNCHANGED <<result, save_calls>>
    /\ UNCHANGED extractVars
    /\ UNCHANGED <<client, api>>

\* process_single_report.py, process_report, lines 85-91: the dict of the
\* except clause
ErrorResult(e) == [status |-> "error", error |-> e, duration_seconds |-> "elapsed"]

\* process_report, lines 40-91: the dict it returns, the table after the
\* call and the calls of save_report it made. Every step is inside the try.
process_report(f, table) ==
    IF ~f.text_ok
    THEN [result |-> ErrorResult("extract_text"), db |-> table, save_calls |-> <<>>]
    ELSE LET extracted == extract_report(f.llm.report, f.name) IN
         IF extracted.raised
         THEN [result |-> ErrorResult(extracted.exc), db |-> table, save_calls |-> <<>>]
         ELSE LET r == extracted.value
                  validation_result == validate(r)
                  saved == save_report("sqlite", table, r)
              IN  IF SaveRaises("sqlite", r)
                  THEN [result |-> ErrorResult("save_report"), db |-> table,
                        save_calls |-> <<SaveCall(1, "sqlite", r)>>]
                  ELSE IF ~f.output_ok
                  THEN [result |-> ErrorResult("write_text"), db |-> saved,
                        save_calls |-> <<SaveCall(1, "sqlite", r)>>]
                  ELSE [result |-> [status |-> "success",
                                    report_id |-> ReportId("sqlite", r),
                                    questions_extracted |-> Len(r.question_responses),
                                    action_items |-> Len(r.action_items),
                                    validation |-> validation_result,
                                    duration_seconds |-> "elapsed",
                                    output_file |-> f.name],
                        db |-> saved,
                        save_calls |-> <<SaveCall(1, "sqlite", r)>>]

\* main, line 125, with a status that is always success
ExitCodeAlwaysSuccess(res) == 0

\* main, line 125: sys.exit(0 if result['status'] == 'success' else 1)
ExitCode(res) == IF res.status = "success" THEN 0 ELSE 1

\* main, lines 96-118: the argument checks, each ending the process with
\* exit code 1, and the call of process_report
ProcessMain ==
    /\ caller = "process_report"
    /\ cpc = "start"
    /\ IF files = <<>>
       THEN /\ exit_code' = 1
            /\ cpc' = "done"
            /\ UNCHANGED <<result, db, save_calls>>
       ELSE IF ~files[1].exists \/ Lower(Suffix(files[1].name)) /= <<".", "p", "d", "f">>
            THEN /\ exit_code' = 1
                 /\ cpc' = "done"
                 /\ UNCHANGED <<result, db, save_calls>>
            ELSE /\ result' = process_report(files[1], db).result
                 /\ db' = process_report(files[1], db).db
                 /\ save_calls' = save_calls \o process_report(files[1], db).save_calls
                 /\ cpc' = "result"
                 /\ UNCHANGED exit_code
    /\ UNCHANGED <<caller, config, files, file_i, reports, failed_files, save_i, response>>
    /\ UNCHANGED extractVars
    /\ UNCHANGED <<client, api>>

\* main, lines 120-125: the result is printed and the process exits
ProcessExit ==
    /\ caller = "process_report"
    /\ cpc = "result"
    /\ exit_code' = ExitCode(result)
    /\ cpc' = "done"
    /\ UNCHANGED <<caller, config, files, file_i, reports, failed_files, save_i, db, response,
                   result, save_calls>>
    /\ UNCHANGED extractVars
    /\ UNCHANGED <<client, api>>

\* ------------------------------------------------------------------------
\* A client of the DatabaseProvider interface (src/src/database/base.py):
\* the same calls are made on a PostgreSQLDatabase and on a SQLiteDatabase
\* ------------------------------------------------------------------------

Kinds == {"postgres", "sqlite"}

\* most calls one client makes
MaxCalls == 3

\* the natural key of a report: site number and visit start date, UNKNOWN
\* for a date that is not known
NaturalKey(r) ==
    <<r.site_info["site_number"], IF Truthy(r.visit_start_date) THEN r.visit_start_date ELSE "UNKNOWN">>

NoClient == [calls |-> 0]

\* two empty stores; latest is, for each store, the report last saved
\* without an exception under each natural key and not deleted since
NewClient ==
    [calls |-> 0,
     store |-> [k \in Kinds |-> <<>>],
     call |-> [op |-> "none"],
     outcome |-> [k \in Kinds |-> Returned(<<>>)],
     latest |-> [k \in Kinds |-> <<>>]]

StoreSave(r) ==
    /\ caller = "store_client"
    /\ client.calls < MaxCalls
    /\ client' =
        [calls |-> client.calls + 1,
         store |-> [k \in Kinds |-> save_report(k, client.store[k], r)],
         call |-> [op |-> "save_report", report |-> r],
         outcome |-> [k \in Kinds |-> SaveOutcome(k, r)],
         latest |-> [k \in Kinds |->
                        IF SaveOutcome(k, r).raised THEN client.latest[k]
                        ELSE [n \in DOMAIN client.latest[k] \cup {NaturalKey(r)} |->
                                 IF n = NaturalKey(r) THEN r ELSE client.latest[k][n]]]]
    /\ UNCHANGED <<caller, config, files, file_i, reports, failed_files, save_i, db, response, cpc,
                   result, exit_code, save_calls, api>>
    /\ UNCHANGED extractVars

StoreGet(report_id) ==
    /\ caller = "store_client"
    /\ client.calls < MaxCalls
    /\ client' =
        [client EXCEPT
            !.calls = @ + 1,
            !.call = [op |-> "get_report", report_id |-> report_id],
            !.outcome = [k \in Kinds |-> get_report(client.store[k], report_id)]]
    /\ UNCHANGED <<caller, config, files, file_i, reports, failed_files, save_i, db, response, cpc,
                   result, exit_code, save_calls, api>>
    /\ UNCHANGED extractVars

StoreList ==
    /\ caller = "store_client"
    /\ client.calls < MaxCalls
    /\ client' =
        [client EXCEPT
            !.calls = @ + 1,
            !.call = [op |-> "list_reports"],
            !.outcome = [k \in Kinds |-> list_reports(k, client.store[k])]]
    /\ UNCHANGED <<caller, config, files, file_i, reports, failed_files, save_i, db, response, cpc,
                   result, exit_code, save_calls, api>>
    /\ UNCHANGED extractVars

\* had: whether a report was, for each store, the latest under report_id
\* when the call was made
StoreDelete(report_id) ==
    /\ caller = "store_client"
    /\ client.calls < MaxCalls
    /\ client' =
        [calls |-> client.calls + 1,
         store |-> [k \in Kinds |-> DeleteFrom(client.store[k], report_id)],
         call |-> [op |-> "delete_report", report_id |-> report_id,
                   had |-> [k \in Kinds |-> report_id \in DOMAIN client.latest[k]]],
         outcome |-> [k \in Kinds |-> delete_report(client.store[k], report_id)],
         latest |-> [k \in Kinds |->
                        [n \in DOMAIN client.latest[k] \ {report_id} |-> client.latest[k][n]]]]
    /\ UNCHANGED <<caller, config, files, file_i, reports, failed_files, save_i, db, response, cpc,
                   result, exit_code, save_calls, api>>
    /\ UNCHANGED extractVars

\* ------------------------------------------------------------------------
\* The lazily initialised singletons of the API (src/src/api/main.py lines
\* 46-78) and the threads that call get_db and get_analytics
\* ------------------------------------------------------------------------

\* most threads that call get_db and get_analytics
MaxThreads == 2

\* most calls of get_db and get_analytics the threads make together
MaxRequests == 3

Thread == 1..MaxThreads

\* lines 46-47: _db = None, _analytics = None; instances are numbered from 1
NoInstance == 0

\* lines 48-49: a threading.Lock nobody holds; a held lock has its holder
Unlocked == 0

NoApi == [calls |-> 0]

\* made_db counts the PostgreSQLDatabase instances constructed, made_analytics
\* lists, for each AnalyticsService constructed, the database it was given;
\* returned_db and returned_analytics are the values the calls returned
NewApi ==
    [_db |-> NoInstance,
     _analytics |-> NoInstance,
     _db_lock |-> Unlocked,
     _analytics_lock |-> Unlocked,
     made_db |-> 0,
     made_analytics |-> <<>>,
     raised |-> 0,
     calls |-> 0,
     returned_db |-> {},
     returned_analytics |-> {},
     thread |-> [t \in Thread |-> [pc |-> "idle", fn |-> "none", value |-> NoInstance]]]

ApiFrame ==
    /\ UNCHANGED <<caller, config, files, file_i, reports, failed_files, save_i, db, response, cpc,
                   result, exit_code, save_calls, client>>
    /\ UNCHANGED extractVars

\* thread t of the API is at position p
At(t, p) == caller = "api_threads" /\ api.thread[t].pc = p

Goto(t, p) == [api.thread EXCEPT ![t].pc = p]

\* a handler calls get_db() or get_analytics()
ApiCall(t, fn) ==
    /\ At(t, "idle")
    /\ api.calls < MaxRequests
    /\ api' = [api EXCEPT !.calls = @ + 1,
                          !.thread[t] = [pc |-> IF fn = "get_db" THEN "db_check" ELSE "analytics_check",
                                         fn |-> fn, value |-> NoInstance]]
    /\ ApiFrame

\* a test that is not made
SecondCheckSkipped(singleton) == TRUE

\* lines 58 and 74, inside the lock: if _db is None / if _analytics is None
SecondCheck(singleton) == singleton = NoInstance

\* get_db, line 55: if _db is None
GetDbCheck(t) ==
    /\ At(t, "db_check")
    /\ api' = [api EXCEPT !.thread = Goto(t, IF api._db = NoInstance THEN "db_lock" ELSE "db_return")]
    /\ ApiFrame

\* line 56: with _db_lock, entered when nobody holds the lock
GetDbAcquire(t) ==
    /\ At(t, "db_lock")
    /\ api._db_lock = Unlocked
    /\ api' = [api EXCEPT !._db_lock = t, !.thread = Goto(t, "db_check2")]
    /\ ApiFrame

\* lines 58-60: the second test, and the RuntimeError without DATABASE_URL
GetDbSecondCheck(t) ==
    /\ At(t, "db_check2")
    /\ api' = [api EXCEPT !.thread =
                  Goto(t, IF ~SecondCheck(api._db) THEN "db_unlock"
                          ELSE IF ~config.DATABASE_URL THEN "db_raise"
                          ELSE "db_construct")]
    /\ ApiFrame

\* line 62, the right-hand side: PostgreSQLDatabase(config.DATABASE_URL)
\* connects and creates the schema (postgres_db.py lines 54-70); it returns
\* a new instance or raises
GetDbConstruct(t, connects) ==
    /\ At(t, "db_construct")
    /\ api' = IF connects
              THEN [api EXCEPT !.made_db = @ + 1,
                               !.thread[t].value = api.made_db + 1,
                               !.thread[t].pc = "db_assign"]
              ELSE [api EXCEPT !.thread = Goto(t, "db_raise")]
    /\ ApiFrame

\* line 62, the assignment to the global
GetDbAssign(t) ==
    /\ At(t, "db_assign")
    /\ api' = [api EXCEPT !._db = api.thread[t].value, !.thread = Goto(t, "db_unlock")]
    /\ ApiFrame

\* the end of the with block of line 56
GetDbRelease(t) ==
    /\ At(t, "db_unlock")
    /\ api' = [api EXCEPT !._db_lock = Unlocked, !.thread = Goto(t, "db_return")]
    /\ ApiFrame

\* an exception leaves the with block, which releases the lock, and get_db;
\* inside get_analytics it goes on through the with block of line 72
GetDbRaise(t) ==
    /\ At(t, "db_raise")
    /\ api' = IF api.thread[t].fn = "get_db"
              THEN [api EXCEPT !._db_lock = Unlocked, !.raised = @ + 1,
                               !.thread[t] = [pc |-> "idle", fn |-> "none", value |-> NoInstance]]
              ELSE [api EXCEPT !._db_lock = Unlocked, !.thread = Goto(t, "analytics_raise")]
    /\ ApiFrame

\* line 65: return _db, to the handler or to line 76 of get_analytics
GetDbReturn(t) ==
    /\ At(t, "db_return")
    /\ api' = IF api.thread[t].fn = "get_db"
              THEN [api EXCEPT !.returned_db = @ \cup {api._db},
                               !.thread[t] = [pc |-> "idle", fn |-> "none", value |-> NoInstance]]
              ELSE [api EXCEPT !.thread[t].value = api._db,
                               !.thread[t].pc = "analytics_construct"]
    /\ ApiFrame

\* get_analytics, line 71: if _analytics is None
GetAnalyticsCheck(t) ==
    /\ At(t, "analytics_check")
    /\ api' = [api EXCEPT !.thread =
                  Goto(t, IF api._analytics = NoInstance THEN "analytics_lock" ELSE "analytics_return")]
    /\ ApiFrame

\* line 72: with _analytics_lock
GetAnalyticsAcquire(t) ==
    /\ At(t, "analytics_lock")
    /\ api._analytics_lock = Unlocked
    /\ api' = [api EXCEPT !._analytics_lock = t, !.thread = Goto(t, "analytics_check2")]
    /\ ApiFrame

\* line 74, and the call of get_db() in line 76
GetAnalyticsSecondCheck(t) ==
    /\ At(t, "analytics_check2")
    /\ api' = [api EXCEPT !.thread =
                  Goto(t, IF SecondCheck(api._analytics) THEN "db_check" ELSE "analytics_unlock")]
    /\ ApiFrame

\* line 76, the right-hand side: AnalyticsService(db) keeps the database it
\* is given (analytics/service.py lines 15-16)
GetAnalyticsConstruct(t) ==
    /\ At(t, "analytics_construct")
    /\ api' = [api EXCEPT !.made_analytics = Append(@, api.thread[t].value),
                          !.thread[t].value = Len(api.made_analytics) + 1,
                          !.thread[t].pc = "analytics_assign"]
    /\ ApiFrame

\* line 76, the assignment to the global
GetAnalyticsAssign(t) ==
    /\ At(t, "analytics_assign")
    /\ api' = [api EXCEPT !._analytics = api.thread[t].value, !.thread = Goto(t, "analytics_unlock")]
    /\ ApiFrame

\* the end of the with block of line 72
GetAnalyticsRelease(t) ==
    /\ At(t, "analytics_unlock")
    /\ api' = [api EXCEPT !._analytics_lock = Unlocked, !.thread = Goto(t, "analytics_return")]
    /\ ApiFrame

\* the exception of get_db leaves the with block of line 72 and get_analytics
GetAnalyticsRaise(t) ==
    /\ At(t, "analytics_raise")
    /\ api' = [api EXCEPT !._analytics_lock = Unlocked, !.raised = @ + 1,
                          !.thread[t] = [pc |-> "idle", fn |-> "none", value |-> NoInstance]]
    /\ ApiFrame

\* line 78: return _analytics
GetAnalyticsReturn(t) ==
    /\ At(t, "analytics_return")
    /\ api' = [api EXCEPT !.returned_analytics = @ \cup {api._analytics},
                          !.thread[t] = [pc |-> "idle", fn |-> "none", value |-> NoInstance]]
    /\ ApiFrame

\* ------------------------------------------------------------------------
\* Inputs: documents and the replies of the Inference Service
\* ------------------------------------------------------------------------

\* most files of one batch run
MaxFiles == 2

\* most questions a batch reply repeats beyond the requested range
MaxExtra == 1

\* most questions a batch reply leaves out of the requested range
MaxShort == 1

\* most action items of a reply
MaxItems == 1

\* most questions merged beyond the 85 expected
MaxOver == 1

Reply(data) == [ok |-> TRUE, data |-> data]

\* the call raised, or its text is not JSON
ReplyFail == [ok |-> FALSE, data |-> <<>>]

Without(d, key) == [k \in DOMAIN d \ {key} |-> d[k]]

Site812409 == <<"8", "1", "2", "4", "0", "9">>

HeaderBase ==
    [protocol_number |-> "Protocol ANT-007",
     site_info |-> [site_number |-> Site812409, country |-> "US", institution |-> "Clinic",
                    pi_first_name |-> "Ann", pi_last_name |-> "Lee", city |-> None,
                    anthos_staff |-> "Kim", cra_name |-> None],
     visit_start_date |-> "2025-04-02",
     visit_end_date |-> "2025-04-03",
     visit_type |-> "IMV MOV",
     recruitment_stats |-> [screened |-> 10, screen_failures |-> 2, randomized_enrolled |-> 8,
                            early_discontinued |-> 1, completed_treatment |-> 5, completed_study |-> 4]]

\* every combination of the three optional header fields: absent (null),
\* usable, and for the visit type also a value outside the enum
QualityHeaders ==
    {[HeaderBase EXCEPT !.visit_type = vt, !.visit_start_date = sd, !.visit_end_date = ed] :
        vt \in {None, "IMV MOV", "Routine"}, sd \in {None, "2025-04-02"}, ed \in {None, "2025-04-03"}}

\* header replies that lack a mandatory field, or whose protocol number
\* does not match the pattern
BrokenHeaders ==
    {Without(HeaderBase, k) : k \in {"protocol_number", "site_info", "recruitment_stats", "visit_start_date"}}
    \cup {[HeaderBase EXCEPT !.site_info = Without(HeaderBase.site_info, "country")],
          [HeaderBase EXCEPT !.protocol_number = None],
          [HeaderBase EXCEPT !.protocol_number = "ANT-007"]}

\* header replies without a site number
NoSiteHeader == [HeaderBase EXCEPT !.site_info = [HeaderBase.site_info EXCEPT !.site_number = <<>>]]

BatchText(kind, b, arg) == [kind |-> kind, batch |-> b, arg |-> arg]

DeviantReplies(b) ==
    {BatchText(k, b, 0) : k \in {"error", "not_json", "empty", "foreign", "bad_number", "bad_answer"}}
    \cup {BatchText("short", b, d) : d \in 1..MaxShort}
    \cup {BatchText("extra", b, k) : k \in 1..MaxExtra}

AllExact == [b \in Batch |-> BatchText("exact", b, 0)]

\* batch 61-75 fails; and with it the last batch comes short
Fail5 == [AllExact EXCEPT ![5] = BatchText("error", 5, 0)]

Fail5Short6 == [Fail5 EXCEPT ![6] = BatchText("short", 6, 1)]

AllFail == [b \in Batch |-> BatchText("error", b, 0)]

\* every batch call answers with no questions
AllEmpty == [b \in Batch |-> BatchText("empty", b, 0)]

\* the batch calls fail and answer with no questions in turn
FailOrEmpty == [b \in Batch |-> BatchText(IF b % 2 = 0 THEN "error" ELSE "empty", b, 0)]

\* the call for batch 31-45 is never answered
Silent3 == [AllExact EXCEPT ![3] = BatchText("no_answer", 3, 0)]

OnlyFirst == [AllFail EXCEPT ![1] = BatchText("exact", 1, 0)]

ActionItem(n) ==
    [item_number |-> n, description |-> "d", action_to_be_taken |-> "a", responsible |-> "r",
     due_date |-> "2025-05-01"]

ActionReplies ==
    {Reply([i \in 1..n |-> ActionItem(i)]) : n \in 0..MaxItems}
    \cup {ReplyFail, Reply(<<ActionItem(0)>>)}

RiskBase ==
    [site_level_risks_identified |-> FALSE, cra_level_risks_identified |-> TRUE,
     impact_country_level |-> FALSE, impact_study_level |-> FALSE, narrative |-> "n"]

AssessmentData(quality) ==
    [risk_assessment |-> RiskBase, overall_site_quality |-> quality,
     key_concerns |-> <<"c">>, key_strengths |-> <<"s">>]

AssessmentReplies ==
    {Reply(AssessmentData(q)) : q \in {"Good", None, "Great"}}
    \cup {ReplyFail, Reply(Without(AssessmentData("Good"), "risk_assessment"))}

FileWang == <<"W", "a", "n", "g", "_", "8", "1", "2", "4", "0", "9", "_",
              "2", "0", "2", "5", "0", "4", "0", "2", ".", "d", "o", "c", "x">>

FileReport == <<"r", "e", "p", "o", "r", "t", ".", "P", "D", "F">>

FileNotes == <<"n", "o", "t", "e", "s", ".", "t", "x", "t">>

LLM(header, batch, action, assessment) ==
    [header |-> header, batch |-> batch, action_items |-> action, assessment |-> assessment]

File(name, text_ok, replies) == [name |-> name, text_ok |-> text_ok, llm |-> replies]

GoodLLM == LLM(Reply(HeaderBase), AllExact, Reply(<<ActionItem(1)>>), Reply(AssessmentData("Good")))

\* batch 1 is answered with n questions and the other five calls fail
Bulk(n) == [AllFail EXCEPT ![1] = BatchText("bulk", 1, n)]

BulkCounts ==
    {REVIEW_MIN_QUESTIONS - 1, REVIEW_MIN_QUESTIONS, EXPECTED_QUESTIONS}
    \cup {EXPECTED_QUESTIONS + k : k \in 1..MaxOver}

\* batch b is answered with r, the next batch as requested, the others fail
Pair(b, r) ==
    [AllFail EXCEPT ![b] = r, ![(b % Len(batches)) + 1] = BatchText("exact", (b % Len(batches)) + 1, 0)]

OneDeviant == UNION {{Pair(b, r) : r \in DeviantReplies(b)} : b \in Batch}

\* the documents of the model
Documents ==
    \* the optional header fields against the number of questions merged
    {File(FileWang, TRUE, LLM(Reply(h), Bulk(n), Reply(<<>>), Reply(AssessmentData(q)))) :
        h \in QualityHeaders, n \in BulkCounts, q \in {"Good"}}
    \* the six batches answered as requested, but for 61-75 and 76-85
    \cup {File(FileWang, TRUE, [GoodLLM EXCEPT !.batch = bs]) : bs \in {AllExact, Fail5, Fail5Short6}}
    \cup {File(FileWang, TRUE, [GoodLLM EXCEPT !.batch = Fail5, !.header = Reply([HeaderBase EXCEPT !.visit_type = None])]),
          File(FileWang, TRUE, [GoodLLM EXCEPT !.batch = [AllExact EXCEPT ![5] = BatchText("bad_answer", 5, 0)]])}
    \* an empty visit start date; no overall site quality
    \cup {File(FileWang, TRUE, [GoodLLM EXCEPT !.batch = Bulk(EXPECTED_QUESTIONS),
                                               !.header = Reply([HeaderBase EXCEPT !.visit_start_date = ""])]),
          File(FileWang, TRUE, [GoodLLM EXCEPT !.batch = Bulk(EXPECTED_QUESTIONS),
                                               !.assessment = Reply(AssessmentData(None))])}
    \* one batch reply that is not the requested one
    \cup {File(FileWang, TRUE, [GoodLLM EXCEPT !.batch = bs]) : bs \in OneDeviant \cup {AllFail, OnlyFirst, AllEmpty, FailOrEmpty, Silent3}}
    \* the header call fails, or its reply lacks a mandatory field
    \cup {File(FileWang, TRUE, [GoodLLM EXCEPT !.header = r, !.batch = OnlyFirst]) :
            r \in {ReplyFail} \cup {Reply(h) : h \in BrokenHeaders}}
    \* no site number: the file name decides
    \cup {File(n, TRUE, [GoodLLM EXCEPT !.header = Reply(NoSiteHeader), !.batch = OnlyFirst]) :
            n \in {FileWang, FileReport}}
    \* the action items and the assessment
    \cup {File(FileReport, TRUE, [GoodLLM EXCEPT !.action_items = a, !.batch = OnlyFirst]) : a \in ActionReplies}
    \cup {File(FileReport, TRUE, [GoodLLM EXCEPT !.assessment = a, !.batch = OnlyFirst]) : a \in AssessmentReplies}
    \cup {File(FileReport, TRUE, [GoodLLM EXCEPT !.action_items = ReplyFail, !.assessment = ReplyFail, !.batch = OnlyFirst])}
    \* a visit start date that is not an ISO date
    \cup {File(FileWang, TRUE, [GoodLLM EXCEPT !.batch = OnlyFirst,
                                               !.header = Reply([HeaderBase EXCEPT !.visit_start_date = "02-Apr-2025"])])}
    \* a file the parser cannot read, and one of another type
    \cup {File(FileReport, FALSE, GoodLLM), File(FileNotes, TRUE, GoodLLM)}

\* the documents of the batch runs
BatchDocuments ==
    {File(FileWang, TRUE, [GoodLLM EXCEPT !.batch = OnlyFirst]),
     File(FileWang, TRUE, [GoodLLM EXCEPT !.batch = OnlyFirst,
                                          !.header = Reply([HeaderBase EXCEPT !.visit_start_date = None])]),
     File(FileReport, TRUE, [GoodLLM EXCEPT !.header = ReplyFail]),
     File(FileReport, FALSE, GoodLLM)}

FilePdf == <<"s", "i", "t", "e", ".", "p", "d", "f">>

\* n questions numbered from 1, as one reply carries them
FullQuestions(n) == [i \in 1..n |-> Question(i, 1, i)]

\* the reply of the single call of LLMExtractor.extract_report
FullReport(n) ==
    [protocol_number |-> HeaderBase.protocol_number,
     site_info |-> HeaderBase.site_info,
     visit_start_date |-> HeaderBase.visit_start_date,
     visit_end_date |-> HeaderBase.visit_end_date,
     visit_type |-> HeaderBase.visit_type,
     recruitment_stats |-> HeaderBase.recruitment_stats,
     question_responses |-> FullQuestions(n),
     action_items |-> <<ActionItem(1)>>,
     risk_assessment |-> RiskBase,
     overall_site_quality |-> "Good"]

\* the question counts around the validator's two thresholds
FullCounts == {expected_min - 1, expected_min, target - 1, target, EXPECTED_QUESTIONS}

\* recruitment numbers that break each of the three checks, and none
RecruitmentCases ==
    {HeaderBase.recruitment_stats,
     [HeaderBase.recruitment_stats EXCEPT !["screened"] = 9],
     [HeaderBase.recruitment_stats EXCEPT !["early_discontinued"] = 9],
     [HeaderBase.recruitment_stats EXCEPT !["completed_treatment"] = 9],
     [HeaderBase.recruitment_stats EXCEPT !["screened"] = 9, !["early_discontinued"] = 9,
                                          !["completed_treatment"] = 9],
     [HeaderBase.recruitment_stats EXCEPT !["early_discontinued"] = 8, !["completed_treatment"] = 8]}

\* site numbers other than six ASCII digits
OddSiteNumbers ==
    {<<"8", "1", "2", "4", "0", "U+0663">>, <<"U+00B2", "1", "2", "4", "0", "9">>,
     <<"8", "1", "2", "4", "0">>, <<"8", "1", "2", "4", "0", "9", "1">>,
     <<"8", "1", "2", "4", "0", "A">>, <<>>}

\* numbers of incomplete action items around the grades' warning counts
IncompleteItemCounts == {2, 3, 5, 6}

FullReplies ==
    {Reply([FullReport(n) EXCEPT !.recruitment_stats = rs]) : n \in FullCounts, rs \in RecruitmentCases}
    \* the reply brings its own data_quality
    \cup {Reply([k \in DOMAIN FullReport(n) \cup {"data_quality"} |->
                    IF k = "data_quality"
                    THEN [DefaultDataQualityFlags EXCEPT !.requires_review = TRUE]
                    ELSE FullReport(n)[k]]) : n \in {expected_min - 1}}
    \* no visit start date, one that is not an ISO date, no action items,
    \* one action item without a description, a low confidence
    \cup {Reply([FullReport(target) EXCEPT !.visit_start_date = d]) : d \in {None, "02-Apr-2025"}}
    \cup {Reply([FullReport(target) EXCEPT !.action_items = a]) :
            a \in {<<>>, <<[ActionItem(1) EXCEPT !.description = ""]>>}}
    \cup {Reply([FullReport(target) EXCEPT !.question_responses =
                    [FullQuestions(target) EXCEPT ![1] =
                        [question_number |-> 1, question_text |-> <<1, 1>>, answer |-> "No",
                         sentiment |-> "Negative", key_finding |-> "k", confidence |-> 50]]])}
    \* k action items without a description: k warnings
    \cup {Reply([FullReport(target) EXCEPT !.action_items =
                    [i \in 1..k |-> [ActionItem(i) EXCEPT !.description = ""]]]) : k \in IncompleteItemCounts}
    \* no action items, and a confidence that is exactly the threshold
    \cup {Reply([FullReport(target) EXCEPT !.action_items = <<>>,
                    !.question_responses =
                        [FullQuestions(target) EXCEPT ![1] =
                            [question_number |-> 1, question_text |-> <<1, 1>>, answer |-> "Yes",
                             sentiment |-> "Positive", confidence |-> CONFIDENCE_THRESHOLD]]])}
    \* site numbers: a digit that is not ASCII, a wrong length, a letter
    \cup {Reply([FullReport(target) EXCEPT !.site_info = [HeaderBase.site_info EXCEPT !.site_number = sn]]) :
            sn \in OddSiteNumbers}
    \* every risk flag true; a question answered No with an empty key finding
    \cup {Reply([FullReport(target) EXCEPT !.risk_assessment = [f \in DOMAIN RiskBase |->
                                                                  IF f \in RiskFlags THEN TRUE ELSE RiskBase[f]]]),
          Reply([FullReport(target) EXCEPT !.question_responses =
                    [FullQuestions(target) EXCEPT ![2] =
                        [question_number |-> 2, question_text |-> <<1, 2>>, answer |-> "No",
                         sentiment |-> "Negative", key_finding |-> ""]]])}
    \* the call fails, or the reply is not a report
    \cup {ReplyFail, Reply(Without(FullReport(target), "protocol_number")),
          Reply([FullReport(target) EXCEPT !.question_responses = <<>>])}

ProcessFile(name, exists, text_ok, reply, output_ok) ==
    [name |-> name, exists |-> exists, text_ok |-> text_ok, llm |-> [report |-> reply],
     output_ok |-> output_ok]

\* the arguments of process_single_report.py
ProcessDocuments ==
    {ProcessFile(FilePdf, TRUE, TRUE, r, TRUE) : r \in FullReplies}
    \cup {ProcessFile(FilePdf, TRUE, FALSE, Reply(FullReport(target)), TRUE),
          ProcessFile(FilePdf, TRUE, TRUE, Reply(FullReport(target)), FALSE),
          ProcessFile(FilePdf, FALSE, TRUE, Reply(FullReport(target)), TRUE),
          ProcessFile(FileWang, TRUE, TRUE, Reply(FullReport(target)), TRUE),
          ProcessFile(FileReport, TRUE, TRUE, Reply(FullReport(target)), TRUE)}

\* the reports a client saves: two with one natural key, one with another
\* date, two without a date, one whose date is not an ISO date
StoreReport(date, n) ==
    MOVReportModel([FullReport(n) EXCEPT !.visit_start_date = date], FilePdf)

StoreReports ==
    {StoreReport("2025-04-02", 1), StoreReport("2025-04-02", 2), StoreReport("2025-04-03", 1),
     StoreReport(None, 1), StoreReport("", 2), StoreReport("02-Apr-2025", 1)}

\* the ids a client asks for: those either store gives to these reports
StoreIds == {ReportId(k, r) : k \in Kinds, r \in StoreReports}

RECURSIVE SeqsUpTo(_, _)
SeqsUpTo(S, n) ==
    IF n = 0 THEN {<<>>}
    ELSE SeqsUpTo(S, n - 1) \cup {Append(q, x) : q \in {t \in SeqsUpTo(S, n - 1) : Len(t) = n - 1}, x \in S}

Workloads ==
    {[caller |-> "upload_report", config |-> [DATABASE_URL |-> TRUE, save_to_db |-> FALSE], files |-> <<f>>] :
        f \in Documents}
    \cup {[caller |-> "upload_report", config |-> [DATABASE_URL |-> FALSE, save_to_db |-> FALSE],
           files |-> <<File(FileWang, TRUE, [GoodLLM EXCEPT !.batch = OnlyFirst])>>]}
    \* DATABASE_URL is read by the save loop only
    \cup {[caller |-> "batch_extract", config |-> c, files |-> fs] :
            c \in {[DATABASE_URL |-> TRUE, save_to_db |-> TRUE], [DATABASE_URL |-> FALSE, save_to_db |-> TRUE],
                   [DATABASE_URL |-> FALSE, save_to_db |-> FALSE]},
            fs \in SeqsUpTo(BatchDocuments, MaxFiles) \ {<<>>}}
    \cup {[caller |-> "process_report", config |-> [DATABASE_URL |-> FALSE, save_to_db |-> TRUE], files |-> fs] :
            fs \in {<<>>} \cup {<<f>> : f \in ProcessDocuments}}
    \cup {[caller |-> "store_client", config |-> [DATABASE_URL |-> TRUE, save_to_db |-> TRUE], files |-> <<>>]}
    \* the API with and without DATABASE_URL
    \cup {[caller |-> "api_threads", config |-> [DATABASE_URL |-> u, save_to_db |-> FALSE], files |-> <<>>] :
            u \in BOOLEAN}

\* ------------------------------------------------------------------------
\* Specification
\* ------------------------------------------------------------------------

Init ==
    /\ \E w \in Workloads :
        /\ caller = w.caller
        /\ config = w.config
        /\ files = w.files
    /\ file_i = 1
    /\ reports = <<>>
    /\ failed_files = <<>>
    /\ save_i = 1
    /\ db = <<>>
    /\ response = NoResponse
    /\ result = NoResult
    /\ exit_code = NotExited
    /\ save_calls = <<>>
    /\ client = IF caller = "store_client" THEN NewClient ELSE NoClient
    /\ api = IF caller = "api_threads" THEN NewApi ELSE NoApi
    /\ cpc = IF caller = "batch_extract" THEN "files" ELSE "start"
    /\ ExtractIdle

Next ==
    \/ UploadReceive
    \/ UploadSave
    \/ UploadFail
    \/ BatchExtractDocument
    \/ BatchCollect
    \/ BatchBeginSave
    \/ BatchSaveReport
    \/ BatchDone
    \/ ProcessMain
    \/ ProcessExit
    \/ \E r \in StoreReports : StoreSave(r)
    \/ \E id \in StoreIds : StoreGet(id)
    \/ StoreList
    \/ \E id \in StoreIds : StoreDelete(id)
    \/ \E t \in Thread, fn \in {"get_db", "get_analytics"} : ApiCall(t, fn)
    \/ \E t \in Thread : GetDbCheck(t)
    \/ \E t \in Thread : GetDbAcquire(t)
    \/ \E t \in Thread : GetDbSecondCheck(t)
    \/ \E t \in Thread, connects \in BOOLEAN : GetDbConstruct(t, connects)
    \/ \E t \in Thread : GetDbAssign(t)
    \/ \E t \in Thread : GetDbRelease(t)
    \/ \E t \in Thread : GetDbRaise(t)
    \/ \E t \in Thread : GetDbReturn(t)
    \/ \E t \in Thread : GetAnalyticsCheck(t)
    \/ \E t \in Thread : GetAnalyticsAcquire(t)
    \/ \E t \in Thread : GetAnalyticsSecondCheck(t)
    \/ \E t \in Thread : GetAnalyticsConstruct(t)
    \/ \E t \in Thread : GetAnalyticsAssign(t)
    \/ \E t \in Thread : GetAnalyticsRelease(t)
    \/ \E t \in Thread : GetAnalyticsRaise(t)
    \/ \E t \in Thread : GetAnalyticsReturn(t)
    \/ ExtractHeader
    \/ SubmitBatches
    \/ \E b \in Batch : WorkerStartBatch(b)
    \/ \E b \in Batch : WorkerFinishBatch(b)
    \/ \E b \in Batch : CollectBatch(b)
    \/ ReturnQuestions
    \/ SubmitAux
    \/ WorkerStartActionItems
    \/ WorkerFinishActionItems
    \/ WorkerStartAssessment
    \/ WorkerFinishAssessment
    \/ ActionResult
    \/ AssessmentResult
    \/ ExitRaise
    \/ Assemble

Spec == Init /\ [][Next]_vars

\* the steps of extract_report_chunked: of the thread that called it and of
\* the threads of its two pools
ExtractStep ==
    \/ ExtractHeader
    \/ SubmitBatches
    \/ \E b \in Batch : WorkerStartBatch(b)
    \/ \E b \in Batch : WorkerFinishBatch(b)
    \/ \E b \in Batch : CollectBatch(b)
    \/ ReturnQuestions
    \/ SubmitAux
    \/ WorkerStartActionItems
    \/ WorkerFinishActionItems
    \/ WorkerStartAssessment
    \/ WorkerFinishAssessment
    \/ ActionResult
    \/ AssessmentResult
    \/ ExitRaise
    \/ Assemble

\* where the calling thread and the tasks of the pools stand; every step of
\* the extraction changes it
position ==
    <<pc, yielded, [b \in Batch |-> futures[b].state], action_future.state, assessment_future.state>>

\* the upload service alone, given one document: all calls answered, all
\* batch calls failing, one batch call never answered, the header call
\* failing, the action-items call failing
LiveDocuments ==
    {File(FileWang, TRUE, [GoodLLM EXCEPT !.batch = bs]) : bs \in {AllExact, AllFail, Silent3}}
    \cup {File(FileWang, TRUE, [GoodLLM EXCEPT !.header = ReplyFail, !.batch = OnlyFirst]),
          File(FileReport, TRUE, [GoodLLM EXCEPT !.action_items = ReplyFail, !.batch = OnlyFirst])}

LiveInit ==
    /\ Init
    /\ caller = "upload_report"
    /\ config.DATABASE_URL
    /\ files[1] \in LiveDocuments

LiveNext ==
    \/ UploadReceive
    \/ UploadSave
    \/ UploadFail
    \/ ExtractStep

\* the interpreter schedules every thread that can run: a step of the
\* extraction that stays possible is taken
LiveSpec == LiveInit /\ [][LiveNext]_vars /\ WF_position(ExtractStep)

\* ------------------------------------------------------------------------
\* Properties of extract_report_chunked and its callers
\* ------------------------------------------------------------------------

\* the reply to a question-batch call makes _extract_question_batch raise:
\* the inference call fails, the text is not JSON, or one question object
\* is rejected by the schema
BatchRaises(text) == text.kind \in {"error", "not_json", "bad_number", "bad_answer"}

\* the questions of qs that the reply to batch b held
FromBatch(qs, b) == SelectSeq(qs, LAMBDA q : q.question_text[1] = b)

\* _extract_questions_parallel has returned the merged list
MergeDone == yielded = Batch /\ pc /= "as_completed"

\* the five review conditions, read off a report
ReviewConditions(r) ==
    <<Len(r.question_responses) < 70,
      r.visit_type = None,
      ~Truthy(r.visit_start_date),
      ~Truthy(r.visit_end_date),
      r.data_quality.fields_invalid /= <<>> >>

ReasonTexts ==
    <<"Only {}/85 questions extracted", "Visit type not specified", "Visit start date missing",
      "Visit end date missing", "Invalid fields: {}">>

\* C1: the question_responses of every returned report are strictly
\* ascending by question_number, so no question number occurs twice,
\* whatever the six batch replies hold and in whatever order they complete.
C1_StrictlyAscending ==
    pc = "returned" =>
        \A i \in 1..(Len(report.question_responses) - 1) :
            report.question_responses[i].question_number
                < report.question_responses[i + 1].question_number

\* C2: a question batch whose extractor raises contributes no question to
\* the merged list, every question of every other batch that succeeded is in
\* the merged list, and the exception never leaves the merge: the run only
\* raises for the question list when no question at all was merged.
C2_FailedBatchIsolated ==
    /\ error /= "question_batch"
    /\ (pc = "raised" /\ error = "ValidationError: question_responses") => questions = <<>>
    /\ (MergeDone /\ \E b \in Batch : BatchRaises(llm.batch[b])) =>
        LET merged == {questions[j] : j \in 1..Len(questions)}
            reported == {report.question_responses[j] : j \in 1..Len(report.question_responses)}
        IN  /\ \A b \in Batch :
                  BatchRaises(llm.batch[b]) =>
                      /\ FromBatch(questions, b) = <<>>
                      /\ pc = "returned" => FromBatch(report.question_responses, b) = <<>>
            /\ \A c \in Batch :
                  ~BatchRaises(llm.batch[c]) =>
                      LET data == QuestionsData(llm.batch[c])
                      IN  /\ {data[i] : i \in 1..Len(data)} \subseteq merged
                          /\ pc = "returned" => {data[i] : i \in 1..Len(data)} \subseteq reported

\* a report was returned although one batch reply held a question the
\* schema rejects, with the questions of another batch in it
C2_Witness ==
    /\ pc = "returned"
    /\ \E b \in Batch :
          /\ llm.batch[b].kind \in {"bad_number", "bad_answer"}
          /\ futures[b].outcome.raised
          /\ \E c \in Batch \ {b} :
                /\ llm.batch[c].kind = "exact"
                /\ Len(FromBatch(report.question_responses, c)) = Len(ExactData(c))

DefaultRiskAssessment ==
    [site_level_risks_identified |-> FALSE, cra_level_risks_identified |-> FALSE,
     impact_country_level |-> FALSE, impact_study_level |-> FALSE, narrative |-> ""]

\* C3: once the header and at least one question batch succeeded, a failure
\* of the action-items extractor or of the assessment extractor does not make
\* extract_report_chunked raise; the report has no action items when the
\* action-items extractor failed and the all-false risk flags with an empty
\* narrative when the assessment extractor failed.
C3_AuxFailureDegrades ==
    (/\ pc \notin {"idle", "extract_header"}
     /\ error /= "header"
     /\ \E b \in Batch : futures[b].state = "finished" /\ ~futures[b].outcome.raised)
    =>
    /\ pc \in {"exit_raise", "raised"} => error \notin {"action_items", "assessment"}
    /\ (pc = "returned" /\ action_future.outcome.raised) => report.action_items = <<>>
    /\ (pc = "returned" /\ assessment_future.outcome.raised) =>
          report.risk_assessment = DefaultRiskAssessment

\* the header extractor raises, or its reply lacks a field the report
\* cannot be built without
HeaderFails(reply) ==
    \/ ~reply.ok
    \/ ~({"protocol_number", "site_info", "visit_start_date", "visit_end_date", "recruitment_stats"}
            \subseteq DOMAIN reply.data)
    \/ ~((SiteInfoRequired \ {"site_number"}) \subseteq DOMAIN reply.data["site_info"])
    \/ reply.data["protocol_number"] = None

\* every field of a MOVReport is there and passed its validation
FullyAssembled(r) ==
    /\ DOMAIN r = {"protocol_number", "site_info", "visit_start_date", "visit_end_date", "visit_type",
                   "recruitment_stats", "question_responses", "action_items", "risk_assessment",
                   "overall_site_quality", "key_concerns", "key_strengths", "data_quality",
                   "source_file", "extraction_method"}
    /\ r.protocol_number /= None
    /\ SiteInfoValid(r.site_info)
    /\ RecruitmentStatsValid(r.recruitment_stats)
    /\ Len(r.question_responses) >= 1
    /\ \A i \in 1..Len(r.question_responses) : QuestionResponseValid(r.question_responses[i])
    /\ RiskAssessmentValid(r.risk_assessment)
    /\ DataQualityFlagsValid(r.data_quality)

\* the report came from one of the caller's documents whose header was usable
FromUsableDocument(r) ==
    \E i \in 1..Len(files) :
        /\ files[i].name = r.source_file
        /\ files[i].text_ok
        /\ ~HeaderFails(files[i].llm.header)

\* C4: when the header extractor raises or its reply lacks a mandatory
\* field, extract_report_chunked returns no report, upload_report answers
\* with an error and batch main records the file as failed, neither saving
\* anything for the document; every stored record, and every report batch
\* main keeps for saving, is a fully assembled report.
C4_NoPartialReportStored ==
    /\ (pc /= "idle" /\ HeaderFails(llm.header)) => (pc /= "returned" /\ report = NoReport)
    /\ caller \in {"upload_report", "batch_extract"} =>
          \A id \in DOMAIN db :
              /\ FullyAssembled(db[id].json_data.json)
              /\ FromUsableDocument(db[id].json_data.json)
    /\ \A i \in 1..Len(reports) : FullyAssembled(reports[i]) /\ FromUsableDocument(reports[i])
    /\ (caller = "upload_report" /\ cpc = "done" /\ HeaderFails(files[1].llm.header)) =>
          (response.status_code \in {400, 500} /\ DOMAIN db = {})
    /\ caller = "batch_extract" =>
          \A i \in 1..Len(files) :
              (i < file_i /\ HeaderFails(files[i].llm.header)) =>
                  \E k \in 1..Len(failed_files) : failed_files[k] = files[i].name

\* upload_report answered 500 for a readable document whose header reply
\* came back without a mandatory field, and nothing was stored
C4_Witness ==
    /\ caller = "upload_report"
    /\ cpc = "done"
    /\ files[1].text_ok
    /\ files[1].llm.header.ok
    /\ HeaderFails(files[1].llm.header)
    /\ response.status_code = 500
    /\ response.detail \notin {"extract_text", "header"}
    /\ DOMAIN db = {}

\* C5: in every returned report requires_review is true exactly when fewer
\* than 70 questions were merged, or visit_type is null, or visit_start_date
\* is missing, or visit_end_date is missing, or fields_invalid is non-empty.
C5_RequiresReviewIff ==
    pc = "returned" =>
        (report.data_quality.requires_review
            <=> \E k \in 1..5 : ReviewConditions(report)[k])

\* a returned report that needs review for its missing end date alone
C5_Witness ==
    /\ pc = "returned"
    /\ report.data_quality.requires_review
    /\ ReviewConditions(report) = <<FALSE, FALSE, FALSE, TRUE, FALSE>>

\* C6 as stated: a returned report with at least 70 questions and an empty
\* fields_invalid list has requires_review false.
C6_Original ==
    (/\ pc = "returned"
     /\ Len(report.question_responses) >= 70
     /\ report.data_quality.fields_invalid = <<>>)
    => ~report.data_quality.requires_review

\* C6: a returned report with at least 70 questions, an empty fields_invalid
\* list, a non-null visit_type and both visit dates present has
\* requires_review false.
C6_NoReviewWhenComplete ==
    (/\ pc = "returned"
     /\ Len(report.question_responses) >= 70
     /\ report.data_quality.fields_invalid = <<>>
     /\ report.visit_type /= None
     /\ Truthy(report.visit_start_date)
     /\ Truthy(report.visit_end_date))
    => ~report.data_quality.requires_review

\* a returned report of exactly 70 questions that needs no review
C6_Witness ==
    /\ pc = "returned"
    /\ Len(report.question_responses) = 70
    /\ report.data_quality.fields_invalid = <<>>
    /\ report.visit_type /= None
    /\ Truthy(report.visit_start_date)
    /\ Truthy(report.visit_end_date)
    /\ ~report.data_quality.requires_review

\* C7: in every returned report review_reason holds exactly one reason for
\* each review condition that is triggered and none for the others, so it is
\* null exactly when requires_review is false; with N < 70 questions
\* requires_review is true and the reasons include "Only N/85 questions
\* extracted".
C7_OneReasonPerCondition ==
    pc = "returned" =>
        LET rr == report.data_quality.review_reason
            N == Len(report.question_responses)
        IN  /\ \A k \in 1..5 :
                  Cardinality({i \in 1..Len(rr) : rr[i].text = ReasonTexts[k]})
                      = IF ReviewConditions(report)[k] THEN 1 ELSE 0
            /\ Len(rr) = Cardinality({k \in 1..5 : ReviewConditions(report)[k]})
            /\ (rr = <<>>) <=> ~report.data_quality.requires_review
            /\ N < 70 =>
                  /\ report.data_quality.requires_review
                  /\ \E i \in 1..Len(rr) :
                        rr[i] = [text |-> "Only {}/85 questions extracted", args |-> <<N>>]

\* a returned report with all five conditions triggered and five reasons
C7_Witness ==
    /\ pc = "returned"
    /\ ReviewConditions(report) = <<TRUE, TRUE, TRUE, TRUE, TRUE>>
    /\ Len(report.data_quality.review_reason) = 5

\* the extractor of batch 61-75 throws and the other five batches return
\* exactly the questions of their range
Scenario61To75 ==
    /\ BatchRaises(llm.batch[5])
    /\ \A b \in Batch \ {5} : llm.batch[b].kind = "exact" /\ llm.batch[b].batch = b

HasCountReason(r) ==
    \E i \in 1..Len(r.data_quality.review_reason) :
        r.data_quality.review_reason[i].text = "Only {}/85 questions extracted"

\* C8 as stated: when batch 61-75 throws and the other five return their
\* ranges, the report has no question numbered 61-75, fewer than 70
\* questions, and requires_review true with an "Only N/85 questions
\* extracted" reason.
C8_Original ==
    (pc = "returned" /\ Scenario61To75) =>
        /\ \A i \in 1..Len(report.question_responses) :
              report.question_responses[i].question_number \notin 61..75
        /\ Len(report.question_responses) < 70
        /\ report.data_quality.requires_review
        /\ HasCountReason(report)

\* C8: when batch 61-75 throws and the other five return their ranges, the
\* report has no question numbered 61-75 and exactly 70 questions, which is
\* not below the threshold: no "Only N/85 questions extracted" reason is
\* given, and requires_review is true only if the visit type is null, a
\* visit date is missing or a field is invalid.
C8_Batch61To75Lost ==
    (pc = "returned" /\ Scenario61To75) =>
        /\ \A i \in 1..Len(report.question_responses) :
              report.question_responses[i].question_number \notin 61..75
        /\ Len(report.question_responses) = 70
        /\ ~HasCountReason(report)
        /\ report.data_quality.requires_review
              <=> \E k \in 2..5 : ReviewConditions(report)[k]

\* the scenario with a complete header: 70 questions and no review
C8_Witness ==
    /\ pc = "returned"
    /\ Scenario61To75
    /\ Len(report.question_responses) = 70
    /\ ~report.data_quality.requires_review
    /\ report.data_quality.review_reason = <<>>

\* C9: the completeness score extract_report_chunked computes lies in
\* [0, 1] (0..1000 thousandths) for every header and every merged question
\* list, and for the same questions it does not grow when more of the
\* expected fields are missing.
C9_ScoreInUnitInterval ==
    pc = "assemble" =>
        /\ Round3(Completeness(header_data, questions), total_fields) \in 0..1000
        /\ \A h1 \in QualityHeaders, h2 \in QualityHeaders :
              Len(FieldsMissing(h1)) <= Len(FieldsMissing(h2)) =>
                  Round3(Completeness(h2, questions), total_fields)
                      <= Round3(Completeness(h1, questions), total_fields)

\* C10: the completeness score of a returned report is
\* 1 - (m + (85 - q)) / 89 clamped to [0, 1] and rounded to 3 decimals,
\* q the number of merged questions and m the number of visit_type,
\* visit_start_date, visit_end_date, overall_site_quality that the replies
\* did not hold.
C10_CompletenessFormula ==
    pc = "returned" =>
        LET q == Len(report.question_responses)
            m == Cardinality({f \in {"visit_type", "visit_start_date", "visit_end_date"} :
                                ~Truthy(Get(header_data, f))})
                 + (IF Truthy(Get(assessment_data, "overall_site_quality")) THEN 0 ELSE 1)
            num == 89 - (m + (85 - q))
            clamped == IF num < 0 THEN 0 ELSE IF num > 89 THEN 89 ELSE num
        IN  report.data_quality.completeness_score = (2000 * clamped + 89) \div (2 * 89)

\* the header reply of the document being processed has no site number
HeaderWithoutSiteNumber ==
    /\ llm.header.ok
    /\ "site_info" \in DOMAIN llm.header.data
    /\ ("site_number" \in DOMAIN llm.header.data["site_info"]
            => llm.header.data["site_info"]["site_number"] = <<>>)

\* C11: when the header has no site_number, a file name with six digits
\* between underscores gives the report that site_number and the entry
\* "site_number (extracted from filename)" in data_quality.fields_missing;
\* any other file name gives the placeholder site_number and an entry
\* "site_number" in data_quality.fields_missing.
C11_SiteNumberFallbackRecorded ==
    (pc = "returned" /\ HeaderWithoutSiteNumber) =>
        LET missing == {report.data_quality.fields_missing[i] :
                            i \in 1..Len(report.data_quality.fields_missing)}
        IN  IF FilenameSiteNumber(report.source_file) /= <<>>
            THEN /\ report.site_info["site_number"] = FilenameSiteNumber(report.source_file)
                 /\ "site_number (extracted from filename)" \in missing
            ELSE /\ report.site_info["site_number"] = Placeholder
                 /\ "site_number" \in missing

\* the header reply carries a visit_type outside the three known values
InvalidVisitType(h) ==
    /\ "visit_type" \in DOMAIN h
    /\ h["visit_type"] \notin {None, "", "SIV MOV", "IMV MOV", "COV MOV"}

\* C12: a visit_type that is none of "SIV MOV", "IMV MOV", "COV MOV" does not
\* make extract_report_chunked raise (the assembly raises with it exactly
\* when it raises with a known visit type in its place); the report has
\* visit_type null and "visit_type" in data_quality.fields_invalid and not
\* in data_quality.fields_missing.
C12_InvalidVisitTypeNulled ==
    /\ (pc = "assemble" /\ InvalidVisitType(header_data)) =>
          AssembleError(header_data, questions, action_items, assessment_data, source_file)
            = AssembleError([header_data EXCEPT !["visit_type"] = "IMV MOV"], questions,
                            action_items, assessment_data, source_file)
    /\ (pc = "returned" /\ InvalidVisitType(header_data)) =>
          /\ report.visit_type = None
          /\ \E i \in 1..Len(report.data_quality.fields_invalid) :
                report.data_quality.fields_invalid[i] = "visit_type"
          /\ \A i \in 1..Len(report.data_quality.fields_missing) :
                report.data_quality.fields_missing[i] /= "visit_type"

\* a report was returned for a header whose visit_type is "Routine"
C12_Witness ==
    /\ pc = "returned"
    /\ header_data["visit_type"] = "Routine"
    /\ report.visit_type = None
    /\ report.data_quality.fields_invalid = <<"visit_type">>
    /\ Truthy(report.visit_start_date)

\* C13: whatever the reply, a call of _extract_question_batch for the range
\* start..end that does not raise returns exactly one question for each
\* number of the range and none outside it; a number the reply does not hold
\* is returned with answer NR and sentiment Unknown.
C13_BatchReturnsItsRange ==
    \A b \in Batch :
        (futures[b].state = "finished" /\ ~futures[b].outcome.raised) =>
            LET v == futures[b].outcome.value
                replied == {QuestionsData(llm.batch[b])[i].question_number :
                                i \in 1..Len(QuestionsData(llm.batch[b]))}
            IN  /\ \A i \in 1..Len(v) : v[i].question_number \in batches[b][1]..batches[b][2]
                /\ \A n \in batches[b][1]..batches[b][2] :
                      /\ Cardinality({i \in 1..Len(v) : v[i].question_number = n}) = 1
                      /\ n \notin replied =>
                            \E i \in 1..Len(v) :
                                /\ v[i].question_number = n
                                /\ v[i].answer = "NR"
                                /\ v[i].sentiment = "Unknown"

\* the header reply carries no usable protocol number
UnusableProtocol(h) ==
    \/ "protocol_number" \notin DOMAIN h
    \/ h["protocol_number"] = None
    \/ ~ProtocolPatternMatches(h["protocol_number"])

\* C14: a header reply without a usable protocol number (key absent, null,
\* or not matching the pattern) does not make extract_report_chunked fail
\* for that reason; the returned report has the non-empty protocol_number
\* "Protocol UNKNOWN".
C14_ProtocolDefaultsToUnknown ==
    (pc \in {"returned", "raised"} /\ llm.header.ok /\ UnusableProtocol(llm.header.data)) =>
        /\ error \notin {"KeyError: protocol_number", "ValidationError: protocol_number"}
        /\ pc = "returned" => report.protocol_number = "Protocol UNKNOWN"

\* C15: a report for which the validator reports an issue (a recruitment
\* arithmetic violation or fewer than 70 questions) is still persisted by
\* process_report, and the persisted record has requires_review set.
C15_IssueMarksForReview ==
    (caller = "process_report" /\ result.status = "success" /\ ~result.validation.is_valid)
        => /\ result.report_id \in DOMAIN db
           /\ db[result.report_id].requires_review

\* some call of save_report raised
SaveRaised == \E i \in 1..Len(save_calls) : save_calls[i].raised

\* C16: when save_report raises, the caller of the processing operation
\* ends with an error outcome (upload_report answers 500, process_report
\* returns status error and its process exits non-zero, the batch process
\* exits non-zero), and save_report is called once only for that report.
C16_SaveFailureReachesCaller ==
    (cpc = "done" /\ SaveRaised)
        => /\ caller = "upload_report" => response.status_code = 500
           /\ caller = "process_report" => result.status = "error" /\ exit_code = 1
           /\ caller = "batch_extract" => exit_code \notin {NotExited, 0}
           /\ \A i, j \in 1..Len(save_calls) :
                (save_calls[i].raised /\ save_calls[i].report = save_calls[j].report) => i = j

\* C17: process_report always returns a dict: status "success" with the
\* report id, the question count and the validation summary, or status
\* "error" with an error message and duration_seconds; and the process of
\* the single-report command exits with code 0 exactly when the status is
\* "success".
C17_StructuredResultAndExitCode ==
    caller = "process_report" =>
        /\ cpc = "result" =>
            \/ /\ result.status = "success"
               /\ {"report_id", "questions_extracted", "validation"} \subseteq DOMAIN result
               /\ result.report_id \in DOMAIN db
               /\ result.questions_extracted = result.validation.total_questions
            \/ /\ result.status = "error"
               /\ {"error", "duration_seconds"} \subseteq DOMAIN result
        /\ cpc = "done" => (exit_code = 0 <=> result.status = "success")
        /\ cpc = "done" => exit_code \in {0, 1}

\* the store raised inside process_report, and the process has exited
C17_Witness ==
    /\ caller = "process_report"
    /\ cpc = "done"
    /\ SaveRaised
    /\ result.status = "error"
    /\ result.error = "save_report"
    /\ exit_code = 1

\* what get_report is to return for an id given the reports saved last
ExpectedReport(latest, report_id) ==
    IF report_id \in DOMAIN latest THEN Returned(latest[report_id]) ELSE Returned(NoReport)

\* C18: after any sequence of save_report and delete_report calls on a
\* store, get_report(id) returns a report equal in all fields to the one
\* saved last under that natural key, or nothing if none was saved or it
\* was deleted since; no two rows share a natural key; delete_report
\* returns true exactly when a row existed.
C18_StoreRoundTrip ==
    caller = "store_client" =>
        \A k \in Kinds :
            LET table == client.store[k]
                latest == client.latest[k]
            IN  /\ \A id \in StoreIds : get_report(table, id) = ExpectedReport(latest, id)
                /\ client.call.op = "get_report"
                     => client.outcome[k] = ExpectedReport(latest, client.call.report_id)
                /\ \A a, b \in DOMAIN table :
                     NaturalKey(table[a].json_data.json) = NaturalKey(table[b].json_data.json) => a = b
                /\ client.call.op = "delete_report"
                     => client.outcome[k] = Returned(client.call.had[k])

\* two reports without a visit date were saved under one key, and
\* get_report has returned the second
C18_Witness ==
    /\ caller = "store_client"
    /\ client.calls = MaxCalls
    /\ client.call.op = "get_report"
    /\ client.call.report_id = <<Site812409, "UNKNOWN">>
    /\ client.outcome["postgres"] = Returned(StoreReport("", 2))
    /\ DOMAIN client.store["postgres"] = {<<Site812409, "UNKNOWN">>}

\* two outcomes of one call are the same result
SameOutcome(o1, o2) == o1.raised = o2.raised /\ (~o1.raised => o1.value = o2.value)

\* C19: SQLiteDatabase and PostgreSQLDatabase give the same results for the
\* same sequence of save, get, list and delete calls: saving a report whose
\* visit start date is unknown returns "<site_number>_UNKNOWN" in both, and
\* list_reports returns (id, report) pairs in both.
C19_StoresInterchangeable ==
    (caller = "store_client" /\ client.call.op /= "none") =>
        /\ SameOutcome(client.outcome["postgres"], client.outcome["sqlite"])
        /\ (client.call.op = "save_report" /\ ~Truthy(client.call.report.visit_start_date))
             => \A k \in Kinds :
                   client.outcome[k] = Returned(<<client.call.report.site_info["site_number"], "UNKNOWN">>)
        /\ client.call.op = "list_reports"
             => \A k \in Kinds : \A e \in client.outcome[k].value : e.tuple

\* the entries of a list of messages that have the given text
WithText(messages, text) == {i \in 1..Len(messages) : messages[i].text = text}

\* the three recruitment rules hold
RecruitmentConsistent(stats) ==
    /\ stats["screened"] >= stats["randomized_enrolled"] + stats["screen_failures"]
    /\ stats["early_discontinued"] <= stats["randomized_enrolled"]
    /\ stats["completed_treatment"] <= stats["randomized_enrolled"]

\* C20: validate classifies the question count n: n < 70 adds exactly one
\* issue (is_valid is false), 70 <= n < 76 adds exactly one "Below target"
\* warning and no issue, n >= 76 adds neither; a report with exactly 70
\* questions and consistent recruitment numbers is valid with at least one
\* warning.
C20_CoverageThresholds ==
    (caller = "process_report" /\ result.status = "success") =>
        LET v == result.validation
            n == v.total_questions
            low == WithText(v.issues, "Insufficient questions extracted: {}/85 (minimum: {})")
            below == WithText(v.warnings, "Below target question count: {}/85 (target: {})")
            stats == db[result.report_id].json_data.json.recruitment_stats
        IN  /\ n < 70 => Cardinality(low) = 1 /\ below = {} /\ ~v.is_valid
            /\ (n >= 70 /\ n < 76) => low = {} /\ Cardinality(below) = 1
            /\ n >= 76 => low = {} /\ below = {}
            /\ (n = 70 /\ RecruitmentConsistent(stats)) => v.is_valid /\ Len(v.warnings) >= 1

\* a report with exactly 70 questions was validated: valid, one warning
C20_Witness ==
    /\ caller = "process_report"
    /\ result.status = "success"
    /\ result.validation.total_questions = 70
    /\ result.validation.is_valid
    /\ result.validation.issues = <<>>
    /\ result.validation.warnings = <<Reason("Below target question count: {}/85 (target: {})", <<70, 76>>)>>

\* the report process_report validated and saved
SavedReport == db[result.report_id].json_data.json

NoWithKeyFinding(r) ==
    {i \in 1..Len(r.question_responses) :
        /\ r.question_responses[i]["answer"] = "No"
        /\ Get(r.question_responses[i], "key_finding") /= None}

\* the risk flags of the report that are true
TrueRiskFlags(r) == {f \in RiskFlags : r.risk_assessment[f]}

\* C22: the critical_findings of validate hold one entry for every question
\* answered No that carries a non-null key_finding, one entry for every risk
\* flag that is true (site-level, CRA-level, country-impact, study-impact),
\* and nothing else.
C22_CriticalFindings ==
    (caller = "process_report" /\ result.status = "success") =>
        LET cf == result.validation.critical_findings
            questions_part == WithText(cf, "Q{}: {}")
        IN  /\ Cardinality(questions_part) = Cardinality(NoWithKeyFinding(SavedReport))
            /\ Len(cf) = Cardinality(NoWithKeyFinding(SavedReport)) + Cardinality(TrueRiskFlags(SavedReport))

\* C23: the grade of validate depends on the numbers of issues and warnings
\* only: "Poor" if there is an issue (exactly when is_valid is false),
\* otherwise "Excellent" for 0 warnings, "Good" for 1-2, "Fair" for 3-5,
\* "Needs Review" for more than 5; a report with at least 76 questions,
\* consistent recruitment numbers, every confidence at or above the
\* threshold and no action items is valid with grade "Good", its only
\* warning being the one about action items.
C23_GradeFromCounts ==
    (caller = "process_report" /\ result.status = "success") =>
        LET v == result.validation
            w == Len(v.warnings)
            r == SavedReport
        IN  /\ v.is_valid <=> Len(v.issues) = 0
            /\ v.data_quality = "Poor" <=> ~v.is_valid
            /\ v.is_valid =>
                 v.data_quality = (IF w = 0 THEN "Excellent"
                                   ELSE IF w <= 2 THEN "Good"
                                   ELSE IF w <= 5 THEN "Fair"
                                   ELSE "Needs Review")
            /\ ( /\ Len(r.question_responses) >= 76
                 /\ RecruitmentConsistent(r.recruitment_stats)
                 /\ \A i \in 1..Len(r.question_responses) :
                        Confidence(r.question_responses[i]) >= CONFIDENCE_THRESHOLD
                 /\ Len(r.action_items) = 0 )
                 => /\ v.is_valid
                    /\ v.data_quality = "Good"
                    /\ v.warnings = <<Reason("No action items found in report", <<>>)>>

\* a report with 76 questions, one of them at the confidence threshold, and
\* no action items was graded Good
C23_Witness ==
    /\ caller = "process_report"
    /\ result.status = "success"
    /\ Len(SavedReport.question_responses) = 76
    /\ Confidence(SavedReport.question_responses[1]) = CONFIDENCE_THRESHOLD
    /\ Len(SavedReport.action_items) = 0
    /\ result.validation.data_quality = "Good"
    /\ result.validation.is_valid

\* exactly six characters, each one of '0'-'9'
SixAsciiDigits(v) == Len(v) = 6 /\ \A i \in 1..Len(v) : v[i] \in AsciiDigit

\* C24: every SiteInfo that is constructed, and so every assembled report,
\* has a site_number of exactly six ASCII digits; every other string makes
\* the construction fail with a validation error.
C24_SiteNumberSixAsciiDigits ==
    /\ pc = "returned" => SixAsciiDigits(report.site_info["site_number"])
    /\ \A k \in DOMAIN db : SixAsciiDigits(db[k].json_data.json.site_info["site_number"])
    /\ ( /\ caller = "process_report"
         /\ cpc \in {"result", "done"}
         /\ result.status /= "none"
         /\ files[1].llm.report.ok
         /\ "site_info" \in DOMAIN files[1].llm.report.data
         /\ ~SixAsciiDigits(files[1].llm.report.data["site_info"]["site_number"]) )
         => result.status = "error"

\* C25: at every moment of an extract_report_chunked run at most 3
\* question-batch calls are in flight, and at most 2 calls are in flight
\* during the action-items and assessment phase.
C25_CallsInFlight ==
    /\ Cardinality(RunningBatches) <= 3
    /\ Cardinality(RunningAux) <= 2
    /\ RunningAux /= {} => RunningBatches = {}
    /\ (action_future.state /= "none" \/ assessment_future.state /= "none") => RunningBatches = {}

\* three batch calls are in flight while a fourth batch waits in the queue
C25_Witness ==
    /\ Cardinality(RunningBatches) = 3
    /\ \E b \in Batch : futures[b].state = "pending"
    /\ pc = "as_completed"

\* the number of questions the batches up to b returned
RECURSIVE ReturnedCount(_)
ReturnedCount(b) ==
    IF b = 0 THEN 0
    ELSE ReturnedCount(b - 1)
            + (IF futures[b].state = "finished" /\ ~futures[b].outcome.raised
               THEN Len(futures[b].outcome.value) ELSE 0)

\* the merged list was sorted and handed on
AfterMerge == pc \in {"submit_aux", "action_result", "assessment_result", "assemble", "returned"}

\* C26: the merged question list is sorted and handed to the assembly only
\* after all six batch tasks have resolved (none is abandoned or cancelled);
\* the list is appended to by the orchestrating thread only, never by a
\* worker; so the merged list holds every question of every batch that
\* succeeded, whatever the order of completion.
C26_MergeAfterAllResolved ==
    /\ [](AfterMerge =>
            /\ \A b \in Batch : futures[b].state = "finished"
            /\ yielded = Batch
            /\ Len(questions) = ReturnedCount(Len(batches))
            /\ \A b \in Batch :
                  ~futures[b].outcome.raised =>
                      \A i \in 1..Len(futures[b].outcome.value) :
                          \E j \in 1..Len(questions) : questions[j] = futures[b].outcome.value[i])
    /\ [][(futures' /= futures /\ pc' /= "idle") => all_questions' = all_questions]_vars
    /\ [][(Len(all_questions') > Len(all_questions))
            => \E b \in Batch :
                  /\ futures[b].state = "finished"
                  /\ yielded' = yielded \cup {b}
                  /\ b \notin yielded
                  /\ futures' = futures]_vars

\* the merged list of a run with a failed batch and two successful ones was
\* handed on, all six futures resolved
C26_Witness ==
    /\ AfterMerge
    /\ \A b \in Batch : futures[b].state = "finished"
    /\ \E b \in Batch : futures[b].outcome.raised
    /\ \E b, c \in Batch :
          /\ b /= c
          /\ ~futures[b].outcome.raised /\ Len(futures[b].outcome.value) > 0
          /\ ~futures[c].outcome.raised /\ Len(futures[c].outcome.value) > 0
    /\ Len(questions) = ReturnedCount(Len(batches))

\* the steps of one future: submitted, taken by a worker, resolved
FutureSteps == {<<"none", "pending">>, <<"pending", "running">>, <<"running", "finished">>}

\* a future keeps its state or makes one step of its life
FutureAdvances(old, new) == old.state = new.state \/ <<old.state, new.state>> \in FutureSteps

\* C27: the inference calls of one extract_report_chunked run follow a fixed
\* protocol without retries: the header call completes before any other call
\* is submitted, and when it fails no other call is made; there is exactly
\* one call for each of the six ranges 1-15, 16-30, 31-45, 46-60, 61-75,
\* 76-85, which are pairwise disjoint and cover 1..85; the action-items call
\* and the assessment call are made once each, only after all six resolved.
C27_FixedProtocol ==
    /\ [](pc = "submit_batches" =>
          /\ Len(batches) = 6
          /\ \A n \in QUESTION_NUMBER_MIN..QUESTION_NUMBER_MAX :
                Cardinality({b \in Batch : batches[b][1] <= n /\ n <= batches[b][2]}) = 1
          /\ \A b \in Batch : QUESTION_NUMBER_MIN <= batches[b][1] /\ batches[b][2] <= QUESTION_NUMBER_MAX)
    /\ [](pc \in {"idle", "extract_header", "submit_batches"} =>
            /\ \A b \in Batch : futures[b].state = "none"
            /\ action_future.state = "none" /\ assessment_future.state = "none")
    /\ []((pc = "raised" /\ error = "header") =>
            /\ \A b \in Batch : futures[b].state = "none"
            /\ action_future.state = "none" /\ assessment_future.state = "none")
    /\ []((action_future.state /= "none" \/ assessment_future.state /= "none") =>
            \A b \in Batch : futures[b].state = "finished")
    /\ [](pc = "returned" =>
            /\ \A b \in Batch : futures[b].state = "finished"
            /\ action_future.state = "finished" /\ assessment_future.state = "finished")
    /\ [][pc' /= "idle" =>
            /\ \A b \in Batch : FutureAdvances(futures[b], futures'[b])
            /\ FutureAdvances(action_future, action_future')
            /\ FutureAdvances(assessment_future, assessment_future')]_vars

\* a run that made all nine calls, one of the six batch calls having failed,
\* and returned a report
C27_Witness ==
    /\ pc = "returned"
    /\ \A b \in Batch : futures[b].state = "finished"
    /\ \E b \in Batch : futures[b].outcome.raised
    /\ action_future.state = "finished"
    /\ assessment_future.state = "finished"

\* C28: every extract_report_chunked run eventually finishes, returning a
\* report or raising, also when the call of a sub-extractor is never
\* answered: the call is bounded by a timeout and counts as a failed
\* sub-extraction.
C28_RunEventuallyFinishes == (pc = "extract_header") ~> (pc \in {"returned", "raised"})

\* every batch call of the run is resolved and none returned a question
NoBatchReturnedQuestions ==
    \A b \in Batch :
        /\ futures[b].state = "finished"
        /\ futures[b].outcome.raised \/ futures[b].outcome.value = <<>>

\* the replies to the batch calls about document f hold no question
RepliesWithoutQuestions(f) ==
    \A b \in Batch : f.llm.batch[b].kind \in {"error", "not_json", "empty"}

\* C29: when all six question batches fail or return empty lists,
\* extract_report_chunked raises and returns no report, also when the
\* header, action-items and assessment calls succeeded; no report with zero
\* question_responses is returned, kept for saving or stored.
C29_NoReportWithoutQuestions ==
    /\ NoBatchReturnedQuestions => (pc /= "returned" /\ report = NoReport)
    /\ (pc = "assemble" /\ questions = <<>>) =>
          AssembleError(header_data, questions, action_items, assessment_data, source_file) /= ""
    /\ pc = "returned" => Len(report.question_responses) >= 1
    /\ \A i \in 1..Len(reports) : Len(reports[i].question_responses) >= 1
    /\ caller \in {"upload_report", "batch_extract"} =>
          \A id \in DOMAIN db : Len(db[id].json_data.json.question_responses) >= 1
    /\ (caller = "upload_report" /\ cpc = "done" /\ RepliesWithoutQuestions(files[1])) =>
          (response.status_code \in {400, 500} /\ DOMAIN db = {})

\* the header, the action items and the assessment were extracted, the
\* batch calls failed or returned nothing, some of each, and the assembly
\* raised on the empty question list
C29_Witness ==
    /\ pc = "raised"
    /\ error = "ValidationError: question_responses"
    /\ NoBatchReturnedQuestions
    /\ \E b \in Batch : futures[b].outcome.raised
    /\ \E b \in Batch : ~futures[b].outcome.raised
    /\ action_future.state = "finished" /\ ~action_future.outcome.raised
    /\ assessment_future.state = "finished" /\ ~assessment_future.outcome.raised

\* the thread t waits for, Unlocked when it waits for none
WaitsFor(t) ==
    IF api.thread[t].pc = "db_lock" THEN api._db_lock
    ELSE IF api.thread[t].pc = "analytics_lock" THEN api._analytics_lock
    ELSE Unlocked

\* the positions at which a thread holds the lock
InDbLock == {"db_check2", "db_construct", "db_assign", "db_unlock", "db_raise"}

InAnalyticsLock ==
    {"analytics_check2", "analytics_construct", "analytics_assign", "analytics_unlock", "analytics_raise"}

\* the threads inside the with block of get_analytics, the nested get_db
\* included
HoldsAnalyticsLock ==
    {t \in Thread : \/ api.thread[t].pc \in InAnalyticsLock
                    \/ api.thread[t].fn = "get_analytics"
                        /\ api.thread[t].pc \in InDbLock \cup {"db_check", "db_lock", "db_return"}}

\* a step of thread t that ends its call with an exception
RaisesOut(t) ==
    /\ api.thread[t].pc \in {"db_raise", "analytics_raise"}
    /\ api'.thread[t].pc = "idle"

\* C30: under every interleaving of threads calling get_db and
\* get_analytics, at most one PostgreSQLDatabase and at most one
\* AnalyticsService are constructed and every call that returns returns
\* that instance; the threads never wait for each other in a cycle, though
\* get_analytics takes the database lock while holding the analytics lock;
\* a failed initialisation leaves the singleton unset and the locks
\* released, so that a later call constructs it.
C30_SingletonsOnce ==
    /\ [](caller = "api_threads" =>
            /\ api.made_db <= 1
            /\ Len(api.made_analytics) <= 1
            /\ api._db \in {NoInstance, api.made_db}
            /\ api.returned_db \subseteq {api._db} \ {NoInstance}
            /\ api.returned_analytics \subseteq {api._analytics} \ {NoInstance}
            /\ \A i \in 1..Len(api.made_analytics) :
                  api.made_analytics[i] /= NoInstance /\ api.made_analytics[i] = api._db
            \* the locks exclude
            /\ api._db_lock = Unlocked <=> {t \in Thread : api.thread[t].pc \in InDbLock} = {}
            /\ \A t \in Thread : api.thread[t].pc \in InDbLock => api._db_lock = t
            /\ api._analytics_lock = Unlocked <=> HoldsAnalyticsLock = {}
            /\ \A t \in HoldsAnalyticsLock : api._analytics_lock = t
            \* no set of threads waits for locks its own members hold
            /\ \A S \in SUBSET Thread : S = {} \/ \E t \in S : WaitsFor(t) \notin S
            \* a thread inside a call can step, or waits for one that can
            /\ (\E t \in Thread : api.thread[t].pc /= "idle") =>
                  \E t \in Thread : api.thread[t].pc /= "idle" /\ WaitsFor(t) = Unlocked
            \* an initialisation that fails has not set the singleton
            /\ \A t \in Thread :
                  /\ api.thread[t].pc = "db_raise" => api._db = NoInstance
                  /\ api.thread[t].pc = "analytics_raise" => api._analytics = NoInstance)
    /\ [][caller = "api_threads" =>
            \A t \in Thread :
                RaisesOut(t) =>
                    /\ api'._db = api._db /\ api'._analytics = api._analytics
                    /\ api'._db_lock /= t /\ api'._analytics_lock /= t]_vars
    \* after a failure the next call finds the singleton unset and goes on
    \* to construct it
    /\ [][caller = "api_threads" =>
            \A t \in Thread :
                (api.thread[t].pc = "db_check" /\ api'.thread[t].pc /= "db_check" /\ api._db = NoInstance)
                    => api'.thread[t].pc = "db_lock"]_vars

\* a first initialisation failed, a later call constructed the database,
\* and calls of get_db and of get_analytics have returned the singletons
C30_Witness ==
    /\ caller = "api_threads"
    /\ api.raised >= 1
    /\ api.made_db = 1
    /\ api.returned_db = {1}
    /\ api.returned_analytics = {1}
    /\ api.made_analytics = <<1>>

====
